---------------------------- MODULE Spec2Model ----------------------------
(***************************************************************************)
(* looky: the persistent catalog (src/src/catalog.rs), the duplicate       *)
(* clusterer (src/src/duplicates.rs), the thumbnail pipeline               *)
(* (src/src/thumbnail.rs), and the duplicate scan and the thumbnail        *)
(* loading of the orchestrator (src/src/app.rs).                           *)
(*                                                                         *)
(* The specifications share the variables:                                 *)
(*   SpecCatalog  the catalog API called in any order on files that are    *)
(*                modified and deleted behind its back;                    *)
(*   SpecDup      find_duplicates run step by step on any bounded input;   *)
(*   SpecDupWide  the same on inputs one entry longer;                     *)
(*   SpecScan     compute_hashes_batch over a set of files followed by     *)
(*                find_duplicates on the fingerprints that were produced;  *)
(*   SpecScanFive the same on five files under the application's threshold;*)
(*   SpecPrune    prune_missing on a catalog of five paths;                *)
(*   SpecThumb    generate_thumbnail called repeatedly on a file that is   *)
(*                rewritten and deleted between the calls.                 *)
(*   SpecStored   the catalog API on a database that already holds a row   *)
(*                written by an earlier run or another program;            *)
(*   SpecBatch    compute_hashes_batch and generate_thumbnails_parallel,   *)
(*                the closures of a call finishing in any order;           *)
(*   SpecApp      update() handling the messages of a duplicate scan:      *)
(*                folder changes, FindDuplicates, CancelDupScan and Tasks  *)
(*                that run and deliver in any order while files change;    *)
(*   SpecAppFair  SpecApp with a runtime that keeps delivering Tasks;      *)
(*   SpecNoCatalog  SpecAppFair when Catalog::open failed at boot;         *)
(*   SpecLoad     update() handling the messages that load the thumbnails  *)
(*                of a folder, with folder changes while Tasks run;        *)
(*   SpecLoadFair SpecLoad with a runtime that keeps delivering Tasks.     *)
(*                                                                         *)
(* Option<T> is modelled as a sequence: None == <<>>, Some(x) == <<x>>.    *)
(***************************************************************************)
EXTENDS Integers, Sequences, FiniteSets, TLC

VARIABLES
    \* ---- the file system and the catalog ----
    disk,             \* path -> Option [size, mtime]: what std::fs::metadata sees
    images,           \* the rows of table "images" (a set of records)
    hashes_written,   \* history: path -> Option identity given to the last insert_hashes
    summary_written,  \* history: path -> Option identity given to the last insert_file_summary
    cat_op,           \* the last catalog / file-system operation, its arguments and result
    \* ---- find_duplicates ----
    pc,               \* position inside find_duplicates
    files,            \* the (index, path) batch handed to compute_hashes_batch, as file contents
    hashes,           \* argument `hashes`: sequence of [idx, content_hash, perceptual_hash]
    threshold,        \* argument `threshold`
    groups,           \* local `groups`, the returned Vec<DuplicateGroup>
    exact_matched,    \* local `exact_matched`
    non_exact,        \* local `non_exact`: sequence of [idx, ph]
    matching_pairs,   \* local `matching_pairs`: the (i, j, dist) not yet consumed by the loop
    parent,           \* local `parent` of the union-find
    min_distance,     \* local `min_distance`: a map root -> u32 (a function on its keys)
    reordered,        \* history: the loop has taken a pair out of (i, j) order
    merged,           \* history: the pairs whose union joined two separate clusters, in order
    \* ---- generate_thumbnail ----
    photo,            \* the image file at ThumbPath: Option [size, mtime, content]
    thumb_cache,      \* the files of ~/.looky/cache/thumbnails (a set of records)
    call,             \* Option: the last generate_thumbnail call, its argument and result
    prev_call,        \* Option: the call before it
    calls,            \* number of generate_thumbnail calls made
    touched,          \* the file was written or deleted since the last call returned
    \* ---- compute_hashes_batch / generate_thumbnails_parallel ----
    par_fn,           \* which of the two functions is running
    par_max_size,     \* argument `max_size` of generate_thumbnails_parallel
    par_items,        \* argument `items` / `paths`: sequence of [idx, path]
    par_files,        \* path -> what the file holds
    par_slots,        \* the closure's result per input position, None while it runs
    par_ret,          \* function -> Option: the collected Vec it returned
    par_unordered,    \* history: function -> a closure finished before one of an earlier item
    \* ---- app.rs: the duplicate-scan fields of Looky and the tasks in flight ----
    catalog,          \* state.catalog is Some: Catalog::open succeeded at boot
    folder,           \* state.folder: Option folder
    image_paths,      \* state.image_paths: sequence of paths
    dup_hashes,       \* state.dup_hashes: sequence of [idx, content_hash, perceptual_hash]
    dup_pending,      \* state.dup_pending: sequence of [idx, path]
    dup_scanning,     \* state.dup_scanning
    dup_total,        \* state.dup_total
    dup_groups,       \* state.dup_groups: sequence of DuplicateGroup
    dup_badge_set,    \* state.dup_badge_set: set of indices
    dup_summaries,    \* state.dup_summaries: index -> FileSummary (a function on its keys)
    tasks,            \* the Tasks handed to the runtime whose message is not yet delivered
    scan_no,          \* history: number of FindDuplicates messages handled
    folder_gen,       \* history: number of FolderSelected messages handled
    cancelled,        \* history: the scans stopped by CancelDupScan
    writes,           \* history: number of times a file was rewritten or removed
    last,             \* history: the last message handled, what it wrote and dispatched
    \* ---- thumbnail loading of the orchestrator (app.rs) ----
    thumbnails,       \* state.thumbnails: sequence of [path, handle]
    thumbnail_index,  \* state.thumbnail_index: path -> index (a function on its keys)
    pending_thumbnails,         \* state.pending_thumbnails: sequence of paths
    pending_upgrades,           \* state.pending_upgrades: sequence of paths
    upgrade_batches_in_flight,  \* state.upgrade_batches_in_flight
    loading,          \* state.loading
    load_tasks,       \* the loader's Tasks whose message is not yet delivered
    dispatched_no     \* history: number of loader Tasks handed to the runtime

catVars == <<disk, images, hashes_written, summary_written, cat_op>>
dupVars == <<pc, files, hashes, threshold, groups, exact_matched, non_exact,
             matching_pairs, parent, min_distance, reordered, merged>>
thumbVars == <<photo, thumb_cache, call, prev_call, calls, touched>>
parVars == <<par_fn, par_max_size, par_items, par_files, par_slots, par_ret, par_unordered>>
appVars == <<catalog, folder, image_paths, dup_hashes, dup_pending, dup_scanning, dup_total,
             dup_groups, dup_badge_set, dup_summaries, tasks, scan_no, folder_gen, cancelled,
             writes, last>>
loadVars == <<thumbnails, thumbnail_index, pending_thumbnails, pending_upgrades,
              upgrade_batches_in_flight, loading, load_tasks, dispatched_no>>
vars == <<disk, images, hashes_written, summary_written, cat_op,
          pc, files, hashes, threshold, groups, exact_matched, non_exact,
          matching_pairs, parent, min_distance, reordered, merged,
          photo, thumb_cache, call, prev_call, calls, touched,
          par_fn, par_max_size, par_items, par_files, par_slots, par_ret, par_unordered,
          catalog, folder, image_paths, dup_hashes, dup_pending, dup_scanning, dup_total,
          dup_groups, dup_badge_set, dup_summaries, tasks, scan_no, folder_gen, cancelled,
          writes, last,
          thumbnails, thumbnail_index, pending_thumbnails, pending_upgrades,
          upgrade_batches_in_flight, loading, load_tasks, dispatched_no>>

None == <<>>
Some(x) == <<x>>
IsSome(o) == o # <<>>
Unwrap(o) == o[1]

SetMin(S) == CHOOSE m \in S : \A x \in S : m <= x
SetMax(S) == CHOOSE m \in S : \A x \in S : m >= x
Range(s) == {s[k] : k \in 1..Len(s)}

(***************************************************************************)
(* Bounds of the model.                                                    *)
(***************************************************************************)
MaxSize == 2          \* file sizes are 1..MaxSize
MaxMtime == 2         \* modification times are 1..MaxMtime
MaxImages == 3        \* longest input sequence of find_duplicates
MaxThreshold == 1     \* thresholds are 0..MaxThreshold

Paths == {"a.jpg"}
Identities == [size : 1..MaxSize, mtime : 1..MaxMtime]

\* The (content_hash, perceptual_hash) pairs handed to insert_hashes. Digests are
\* compared for equality only; a token stands for one [u8; 32].
CatalogHashes == {<<1, <<0>>>>, <<2, <<1>>>>}
\* Perceptual hashes are byte vectors; the bytes are drawn from a few u8 values
\* whose pairwise distances are 0, 1, 2 and 3.
PerceptualHashes == {<<0>>, <<1>>, <<3>>, <<7>>}

\* The length insert_hashes always writes and get_hashes insists on.
ContentHashLen == 32

\* FileSummary without filename/file_size (both are derived from the path and
\* the disk at read time): the combinations the code tells apart.
Summaries ==
    { [dimensions |-> None,           date_taken |-> None,        date_modified |-> None],
      [dimensions |-> Some(<<4, 3>>), date_taken |-> None,        date_modified |-> None],
      [dimensions |-> None,           date_taken |-> Some("t"),   date_modified |-> None],
      [dimensions |-> None,           date_taken |-> None,        date_modified |-> Some("m")] }

(***************************************************************************)
(* catalog.rs                                                              *)
(***************************************************************************)

\* file_size_and_mtime: None when metadata() fails (no such file).
file_size_and_mtime(p) ==
    IF IsSome(disk[p])
    THEN Some([size |-> Unwrap(disk[p]).size, mtime |-> Unwrap(disk[p]).mtime])
    ELSE None

\* SELECT ... FROM images WHERE path = ?1  (query_row: the first row, or an error)
RowsOf(tbl, p) == {r \in tbl : r.path = p}
query_row(tbl, p) ==
    IF RowsOf(tbl, p) = {} THEN None ELSE Some(CHOOSE r \in RowsOf(tbl, p) : TRUE)

\* get_hashes with the mtime comparison left out of line 63.
get_hashes_in_SizeOnly(tbl, p) ==
    LET d == file_size_and_mtime(p)
        q == query_row(tbl, p)
    IN  IF ~IsSome(d) THEN None
        ELSE IF ~IsSome(q) THEN None
        ELSE LET row == Unwrap(q) IN
             IF row.file_size # Unwrap(d).size THEN None
             ELSE IF ~IsSome(row.content_hash) THEN None
             ELSE IF ~IsSome(row.perceptual_hash) THEN None
             ELSE IF Unwrap(row.content_hash).len # ContentHashLen THEN None
             ELSE Some(<<Unwrap(row.content_hash).digest, Unwrap(row.perceptual_hash)>>)

\* Catalog::get_hashes on table tbl
get_hashes_in(tbl, p) ==
    LET d == file_size_and_mtime(p)
        q == query_row(tbl, p)
    IN  IF ~IsSome(d) THEN None
        ELSE IF ~IsSome(q) THEN None
        ELSE LET row == Unwrap(q) IN
             IF row.file_size # Unwrap(d).size \/ row.mtime_ns # Unwrap(d).mtime THEN None
             ELSE IF ~IsSome(row.content_hash) THEN None
             ELSE IF ~IsSome(row.perceptual_hash) THEN None
             ELSE IF Unwrap(row.content_hash).len # ContentHashLen THEN None
             ELSE Some(<<Unwrap(row.content_hash).digest, Unwrap(row.perceptual_hash)>>)

get_hashes(p) == get_hashes_in(images, p)

\* get_file_summary without the all-columns-NULL test of line 133.
get_file_summary_in_NoEmptyCheck(tbl, p) ==
    LET d == file_size_and_mtime(p)
        q == query_row(tbl, p)
    IN  IF ~IsSome(d) THEN None
        ELSE IF ~IsSome(q) THEN None
        ELSE LET row == Unwrap(q) IN
             IF row.file_size # Unwrap(d).size \/ row.mtime_ns # Unwrap(d).mtime THEN None
             ELSE Some([dimensions |->
                            IF IsSome(row.width) /\ IsSome(row.height)
                            THEN Some(<<Unwrap(row.width), Unwrap(row.height)>>)
                            ELSE None,
                        date_taken |-> row.date_taken,
                        date_modified |-> row.date_modified])

\* Catalog::get_file_summary on table tbl
get_file_summary_in(tbl, p) ==
    LET d == file_size_and_mtime(p)
        q == query_row(tbl, p)
    IN  IF ~IsSome(d) THEN None
        ELSE IF ~IsSome(q) THEN None
        ELSE LET row == Unwrap(q) IN
             IF row.file_size # Unwrap(d).size \/ row.mtime_ns # Unwrap(d).mtime THEN None
             ELSE IF ~IsSome(row.width) /\ ~IsSome(row.date_taken)
                     /\ ~IsSome(row.date_modified) THEN None
             ELSE Some([dimensions |->
                            IF IsSome(row.width) /\ IsSome(row.height)
                            THEN Some(<<Unwrap(row.width), Unwrap(row.height)>>)
                            ELSE None,
                        date_taken |-> row.date_taken,
                        date_modified |-> row.date_modified])

get_file_summary(p) == get_file_summary_in(images, p)

\* insert_hashes written as INSERT OR REPLACE: the row is replaced as a whole.
UpsertHashes_Replace(tbl, p, size, mtime, ch, ph) ==
    {r \in tbl : r.path # p}
        \cup {[path |-> p, file_size |-> size, mtime_ns |-> mtime,
                width |-> None, height |-> None,
                date_taken |-> None, date_modified |-> None,
                content_hash |-> Some([len |-> ContentHashLen, digest |-> ch]),
                perceptual_hash |-> Some(ph)]}

\* insert_hashes on a table whose path column is not UNIQUE: a plain INSERT.
UpsertHashes_NoConflict(tbl, p, size, mtime, ch, ph) ==
    tbl \cup {[path |-> p, file_size |-> size, mtime_ns |-> mtime,
                width |-> None, height |-> None,
                date_taken |-> None, date_modified |-> None,
                content_hash |-> Some([len |-> ContentHashLen, digest |-> ch]),
                perceptual_hash |-> Some(ph)]}

\* insert_hashes whose ON CONFLICT clause refreshes the identity but not the hashes.
UpsertHashes_KeepOld(tbl, p, size, mtime, ch, ph) ==
    IF RowsOf(tbl, p) = {}
    THEN tbl \cup {[path |-> p, file_size |-> size, mtime_ns |-> mtime,
                    width |-> None, height |-> None,
                    date_taken |-> None, date_modified |-> None,
                    content_hash |-> Some([len |-> ContentHashLen, digest |-> ch]),
                    perceptual_hash |-> Some(ph)]}
    ELSE {IF r.path = p
          THEN [r EXCEPT !.file_size = size, !.mtime_ns = mtime]
          ELSE r : r \in tbl}

\* INSERT ... ON CONFLICT(path) DO UPDATE SET file_size, mtime_ns, content_hash,
\* perceptual_hash: the other columns of an existing row are kept.
UpsertHashes(tbl, p, size, mtime, ch, ph) ==
    IF RowsOf(tbl, p) = {}
    THEN tbl \cup {[path |-> p, file_size |-> size, mtime_ns |-> mtime,
                    width |-> None, height |-> None,
                    date_taken |-> None, date_modified |-> None,
                    content_hash |-> Some([len |-> ContentHashLen, digest |-> ch]),
                    perceptual_hash |-> Some(ph)]}
    ELSE {IF r.path = p
          THEN [r EXCEPT !.file_size = size, !.mtime_ns = mtime,
                         !.content_hash = Some([len |-> ContentHashLen, digest |-> ch]),
                         !.perceptual_hash = Some(ph)]
          ELSE r : r \in tbl}

\* INSERT ... ON CONFLICT(path) DO UPDATE SET file_size, mtime_ns, width, height,
\* date_taken, date_modified: the hash columns of an existing row are kept.
UpsertSummary(tbl, p, size, mtime, s) ==
    LET w == IF IsSome(s.dimensions) THEN Some(Unwrap(s.dimensions)[1]) ELSE None
        h == IF IsSome(s.dimensions) THEN Some(Unwrap(s.dimensions)[2]) ELSE None
    IN  IF RowsOf(tbl, p) = {}
        THEN tbl \cup {[path |-> p, file_size |-> size, mtime_ns |-> mtime,
                        width |-> w, height |-> h,
                        date_taken |-> s.date_taken, date_modified |-> s.date_modified,
                        content_hash |-> None, perceptual_hash |-> None]}
        ELSE {IF r.path = p
              THEN [r EXCEPT !.file_size = size, !.mtime_ns = mtime,
                             !.width = w, !.height = h,
                             !.date_taken = s.date_taken,
                             !.date_modified = s.date_modified]
              ELSE r : r \in tbl}

\* The record kept of the last operation; `before` is what get_hashes(path)
\* answered in the state the operation started from.
Op(name, p, id, arg, ret) ==
    [op |-> name, path |-> p, identity |-> id, arg |-> arg, ret |-> ret,
     before |-> IF p \in Paths THEN get_hashes(p) ELSE None]

\* Catalog::insert_hashes(path, file_size, mtime_ns, content_hash, perceptual_hash)
insert_hashes(p, id, ch, ph) ==
    /\ images' = UpsertHashes(images, p, id.size, id.mtime, ch, ph)
    /\ hashes_written' = [hashes_written EXCEPT ![p] = Some(id)]
    /\ cat_op' = Op("insert_hashes", p, Some(id), Some(<<ch, ph>>), None)
    /\ UNCHANGED <<disk, summary_written>>

\* Catalog::insert_file_summary(path, file_size, mtime_ns, summary)
insert_file_summary(p, id, s) ==
    /\ images' = UpsertSummary(images, p, id.size, id.mtime, s)
    /\ summary_written' = [summary_written EXCEPT ![p] = Some(id)]
    /\ cat_op' = Op("insert_file_summary", p, Some(id), Some(s), None)
    /\ UNCHANGED <<disk, hashes_written>>

\* A call of Catalog::get_hashes: a read, the table is not written.
get_hashes_call(p) ==
    /\ cat_op' = Op("get_hashes", p, None, None, get_hashes(p))
    /\ UNCHANGED <<disk, images, hashes_written, summary_written>>

\* A call of Catalog::get_file_summary: a read, the table is not written.
get_file_summary_call(p) ==
    /\ cat_op' = Op("get_file_summary", p, None, None, get_file_summary(p))
    /\ UNCHANGED <<disk, images, hashes_written, summary_written>>

\* Path::exists that answers false for every path.
path_exists_Never(p) == FALSE

\* Path::new(path_str).exists()
path_exists(p) == IsSome(disk[p])

\* The loop of prune_missing over the paths the SELECT returned:
\* DELETE FROM images WHERE path = ?1 for each path that does not exist.
RECURSIVE PruneFrom(_, _)
PruneFrom(tbl, todo) ==
    IF todo = {} THEN tbl
    ELSE LET p == CHOOSE x \in todo : TRUE
         IN  PruneFrom(IF ~path_exists(p) THEN {r \in tbl : r.path # p} ELSE tbl,
                       todo \ {p})

\* Catalog::prune_missing; arg records the local `paths`.
prune_missing ==
    /\ images' = PruneFrom(images, {r.path : r \in images})
    /\ cat_op' = Op("prune_missing", "", None, Some({r.path : r \in images}), None)
    /\ UNCHANGED <<disk, hashes_written, summary_written>>

\* The environment writes the file at p (or creates it): size and/or mtime change.
ModifyFile(p, id) ==
    /\ file_size_and_mtime(p) # Some(id)
    /\ disk' = [disk EXCEPT ![p] = Some(id)]
    /\ cat_op' = Op("modify", p, Some(id), None, None)
    /\ UNCHANGED <<images, hashes_written, summary_written>>

\* The environment deletes the file at p.
DeleteFile(p) ==
    /\ IsSome(disk[p])
    /\ disk' = [disk EXCEPT ![p] = None]
    /\ cat_op' = Op("delete", p, None, None, None)
    /\ UNCHANGED <<images, hashes_written, summary_written>>

\* No generate_thumbnail call was made and no file is looked at.
ThumbIdle ==
    /\ photo = None
    /\ thumb_cache = {}
    /\ call = None
    /\ prev_call = None
    /\ calls = 0
    /\ touched = FALSE

DupIdle ==
    /\ pc = "idle"
    /\ files = <<>>
    /\ hashes = <<>>
    /\ threshold = 0
    /\ groups = <<>>
    /\ exact_matched = {}
    /\ non_exact = <<>>
    /\ matching_pairs = {}
    /\ parent = <<>>
    /\ min_distance = <<>>
    /\ reordered = FALSE
    /\ merged = <<>>

\* The two functions that map a closure over their input with rayon.
ParFns == {"compute_hashes_batch", "generate_thumbnails_parallel"}

\* Neither of them has been called.
ParIdle ==
    /\ par_fn = ""
    /\ par_max_size = 0
    /\ par_items = <<>>
    /\ par_files = <<>>
    /\ par_slots = <<>>
    /\ par_ret = [f \in ParFns |-> None]
    /\ par_unordered = [f \in ParFns |-> FALSE]

\* The application is not running.
AppIdle ==
    /\ catalog = FALSE
    /\ folder = None
    /\ image_paths = <<>>
    /\ dup_hashes = <<>>
    /\ dup_pending = <<>>
    /\ dup_scanning = FALSE
    /\ dup_total = 0
    /\ dup_groups = <<>>
    /\ dup_badge_set = {}
    /\ dup_summaries = <<>>
    /\ tasks = {}
    /\ scan_no = 0
    /\ folder_gen = 0
    /\ cancelled = {}
    /\ writes = 0
    /\ last = [msg |-> "", task |-> None, pushed |-> <<>>, wrote |-> {}, summarised |-> {},
              dispatched |-> {}]

\* Looky::default(): the loader's fields before any folder is loaded.
LoadIdle ==
    /\ thumbnails = <<>>
    /\ thumbnail_index = <<>>
    /\ pending_thumbnails = <<>>
    /\ pending_upgrades = <<>>
    /\ upgrade_batches_in_flight = 0
    /\ loading = FALSE
    /\ load_tasks = {}
    /\ dispatched_no = 0

\* Catalog::open on a new database file: init_schema leaves an empty table.
InitCatalog ==
    /\ disk \in [Paths -> {None} \cup {Some(id) : id \in Identities}]
    /\ images = {}
    /\ hashes_written = [p \in Paths |-> None]
    /\ summary_written = [p \in Paths |-> None]
    /\ cat_op = Op("open", "", None, None, None)
    /\ DupIdle
    /\ ThumbIdle
    /\ ParIdle
    /\ AppIdle
    /\ LoadIdle

InsertHashes ==
    /\ UNCHANGED <<dupVars, thumbVars, parVars, appVars, loadVars>>
    /\ \E p \in Paths, id \in Identities, h \in CatalogHashes :
          insert_hashes(p, id, h[1], h[2])

InsertFileSummary ==
    /\ UNCHANGED <<dupVars, thumbVars, parVars, appVars, loadVars>>
    /\ \E p \in Paths, id \in Identities, s \in Summaries :
          insert_file_summary(p, id, s)

GetHashes ==
    /\ UNCHANGED <<dupVars, thumbVars, parVars, appVars, loadVars>>
    /\ \E p \in Paths : get_hashes_call(p)

GetFileSummary ==
    /\ UNCHANGED <<dupVars, thumbVars, parVars, appVars, loadVars>>
    /\ \E p \in Paths : get_file_summary_call(p)

PruneMissing ==
    /\ UNCHANGED <<dupVars, thumbVars, parVars, appVars, loadVars>>
    /\ prune_missing

FileModified ==
    /\ UNCHANGED <<dupVars, thumbVars, parVars, appVars, loadVars>>
    /\ \E p \in Paths, id \in Identities : ModifyFile(p, id)

FileDeleted ==
    /\ UNCHANGED <<dupVars, thumbVars, parVars, appVars, loadVars>>
    /\ \E p \in Paths : DeleteFile(p)

NextCatalog ==
    \/ InsertHashes
    \/ InsertFileSummary
    \/ GetHashes
    \/ GetFileSummary
    \/ PruneMissing
    \/ FileModified
    \/ FileDeleted

SpecCatalog == InitCatalog /\ [][NextCatalog]_vars

\* Catalog::open on a database file that already holds a row for the path, its
\* hash columns written by anything: NULL, a BLOB of the length insert_hashes
\* writes, or a BLOB of another length.
StoredContentHashes ==
    {None, Some([len |-> ContentHashLen, digest |-> 1]),
           Some([len |-> ContentHashLen - 1, digest |-> 1])}
StoredPerceptualHashes == {None, Some(<<0>>), Some(<<>>), Some(<<0, 1>>)}

InitStored ==
    /\ disk \in [Paths -> {None} \cup {Some(id) : id \in Identities}]
    /\ \E p \in Paths, id \in Identities,
          ch \in StoredContentHashes, ph \in StoredPerceptualHashes :
          images = {[path |-> p, file_size |-> id.size, mtime_ns |-> id.mtime,
                     width |-> None, height |-> None,
                     date_taken |-> None, date_modified |-> None,
                     content_hash |-> ch, perceptual_hash |-> ph]}
    /\ hashes_written = [p \in Paths |-> None]
    /\ summary_written = [p \in Paths |-> None]
    /\ cat_op = [op |-> "open", path |-> "", identity |-> None, arg |-> None,
                 ret |-> None, before |-> None]
    /\ DupIdle
    /\ ThumbIdle
    /\ ParIdle
    /\ AppIdle
    /\ LoadIdle

SpecStored == InitStored /\ [][NextCatalog]_vars

\* A catalog of up to five paths whose files come and go; every record is
\* written by insert_hashes with one identity and one fingerprint.
PrunePaths == {"1.jpg", "2.jpg", "3.jpg", "4.jpg", "5.jpg"}
PruneIdentity == [size |-> 1, mtime |-> 1]

InitPrune ==
    /\ disk = [p \in PrunePaths |-> Some(PruneIdentity)]
    /\ images = {}
    /\ hashes_written = [p \in PrunePaths |-> None]
    /\ summary_written = [p \in PrunePaths |-> None]
    /\ cat_op = Op("open", "", None, None, None)
    /\ DupIdle
    /\ ThumbIdle
    /\ ParIdle
    /\ AppIdle
    /\ LoadIdle

InsertHashesAt ==
    /\ UNCHANGED <<dupVars, thumbVars, parVars, appVars, loadVars>>
    /\ \E p \in PrunePaths : insert_hashes(p, PruneIdentity, 1, <<0>>)

FileCreatedAt ==
    /\ UNCHANGED <<dupVars, thumbVars, parVars, appVars, loadVars>>
    /\ \E p \in PrunePaths : ModifyFile(p, PruneIdentity)

FileDeletedAt ==
    /\ UNCHANGED <<dupVars, thumbVars, parVars, appVars, loadVars>>
    /\ \E p \in PrunePaths : DeleteFile(p)

NextPrune ==
    \/ InsertHashesAt
    \/ FileCreatedAt
    \/ FileDeletedAt
    \/ PruneMissing

SpecPrune == InitPrune /\ [][NextPrune]_vars

(***************************************************************************)
(* duplicates.rs                                                           *)
(***************************************************************************)

\* An ImageHashes paired with its index, as find_duplicates receives it.
Entry(i, ch, ph) == [idx |-> i, content_hash |-> ch, perceptual_hash |-> ph]

\* (x ^ y).count_ones() on u8
Bit(x, k) == (x \div (2 ^ k)) % 2
CountOnesXor(x, y) == Cardinality({k \in 0..7 : Bit(x, k) # Bit(y, k)})

\* hamming_distance: zip stops at the shorter slice, the per-byte counts are summed.
RECURSIVE HammingFrom(_, _, _)
HammingFrom(a, b, k) ==
    IF k > Len(a) \/ k > Len(b) THEN 0
    ELSE CountOnesXor(a[k], b[k]) + HammingFrom(a, b, k + 1)

hamming_distance(a, b) == HammingFrom(a, b, 1)

\* The orders in which a HashMap may hand out the keys in S.
Orders(S) ==
    {o \in [1..Cardinality(S) -> S] : \A x, y \in 1..Cardinality(S) : x # y => o[x] # o[y]}

\* sha_groups: content_hash -> the indices pushed for it, in input order.
RECURSIVE ShaGroupFrom(_, _, _)
ShaGroupFrom(hs, ch, k) ==
    IF k > Len(hs) THEN <<>>
    ELSE IF hs[k].content_hash = ch
         THEN <<hs[k].idx>> \o ShaGroupFrom(hs, ch, k + 1)
         ELSE ShaGroupFrom(hs, ch, k + 1)

\* sha_groups filled with insert(key, vec![idx]) instead of entry().or_default().push():
\* every key keeps only the last index pushed for it.
sha_group_Overwrite(hs, ch) ==
    LET all == ShaGroupFrom(hs, ch, 1)
    IN  IF all = <<>> THEN <<>> ELSE <<all[Len(all)]>>

sha_group(hs, ch) == ShaGroupFrom(hs, ch, 1)

ShaKeys(hs) == {hs[k].content_hash : k \in 1..Len(hs)}

\* `if indices.len() > 1` of phase 1, with the comparison off by one.
IsExactGroup_MoreThanTwo(indices) == Len(indices) > 2

\* `if indices.len() > 1` of phase 1
IsExactGroup(indices) == Len(indices) > 1

ExactKeys(hs) == {ch \in ShaKeys(hs) : IsExactGroup(sha_group(hs, ch))}

\* exact_matched after the loop over sha_groups.values()
ExactMatched(hs) == UNION {Range(sha_group(hs, ch)) : ch \in ExactKeys(hs)}

\* The Exact groups, pushed in the order the map hands out its values.
ExactGroups(hs, order) ==
    [k \in 1..Len(order) |->
        [match_kind |-> <<"Exact">>, indices |-> sha_group(hs, order[k])]]

\* The filter of non_exact keeping every entry.
KeepsNonExact_All(em, i) == TRUE

\* `.filter(|(idx, _)| !exact_matched.contains(idx))`
KeepsNonExact(em, i) == i \notin em

\* non_exact: the (idx, perceptual_hash) of the entries left to phase 2, in input order.
RECURSIVE NonExactFrom(_, _, _)
NonExactFrom(hs, em, k) ==
    IF k > Len(hs) THEN <<>>
    ELSE IF KeepsNonExact(em, hs[k].idx)
         THEN <<[idx |-> hs[k].idx, ph |-> hs[k].perceptual_hash]>> \o NonExactFrom(hs, em, k + 1)
         ELSE NonExactFrom(hs, em, k + 1)

NonExact(hs, em) == NonExactFrom(hs, em, 1)

\* `if dist <= threshold` with a strict comparison.
IsMatch_Strict(dist, t) == dist < t

\* `if dist <= threshold`
IsMatch(dist, t) == dist <= t

\* matching_pairs: every (i, j, dist) with i < j < n and dist <= threshold;
\* i and j are 0-based positions in non_exact.
MatchingPairs(ne, t) ==
    {<<i, j, hamming_distance(ne[i + 1].ph, ne[j + 1].ph)>> :
        i \in 0..(Len(ne) - 1), j \in 0..(Len(ne) - 1)} \cap
    {e \in (0..(Len(ne) - 1)) \X (0..(Len(ne) - 1)) \X (0..(8 * 8)) :
        e[1] < e[2] /\ IsMatch(e[3], t)}

\* fn find: follows parent pointers, halving the path on the way.  p is the
\* value of par, computed once.
RECURSIVE find(_, _)
find(par, x) ==
    CHOOSE r \in {IF p[x] = x THEN [parent |-> p, root |-> x]
                  ELSE LET p2 == [p EXCEPT ![x] = p[p[x]]]
                       IN  find(p2, p2[x]) : p \in {par}} : TRUE

\* fn union: attaches b's root to a's root.
union(par, a, b) ==
    LET fa == find(par, a)
        fb == find(fa.parent, b)
    IN  IF fa.root # fb.root
        THEN [fb.parent EXCEPT ![fb.root] = fa.root]
        ELSE fb.parent

\* HashMap<usize, u32>::get / insert on a function over its keys
MapGet(m, k) == IF k \in DOMAIN m THEN Some(m[k]) ELSE None
MapInsert(m, k, v) == [x \in (DOMAIN m) \cup {k} |-> IF x = k THEN v ELSE m[x]]

\* unwrap_or(u32::MAX) under min: an absent entry contributes nothing, as every
\* distance is at most 8 * len < u32::MAX.
Present(o) == IF IsSome(o) THEN {Unwrap(o)} ELSE {}

\* `best` as the distance of the edge at hand, the trackers overwritten.
Best_NewEdgeOnly(dist, existing, di, dj) == dist

\* `best` without the trackers found under i's root.
Best_DropDi(dist, existing, di, dj) ==
    SetMin({dist} \cup Present(dj))

\* `best` without the tracker of j's old root.
Best_DropDj(dist, existing, di, dj) ==
    SetMin({dist} \cup Present(existing) \cup Present(di))

\* let best = dist.min(&existing).min(&di).min(&dj)
Best(dist, existing, di, dj) ==
    SetMin({dist} \cup Present(existing) \cup Present(di) \cup Present(dj))

\* One iteration of the loop with the tracker touched only when the pair joins
\* two separate clusters.
ProcessPair_OnlyOnUnion(par, md, e) ==
    LET f1 == find(par, e[1])
        ri == f1.root
        f2 == find(f1.parent, e[2])
        rj == f2.root
        u  == union(f2.parent, e[1], e[2])
        f3 == find(u, e[1])
        root == f3.root
        best == Best(e[3], MapGet(md, root), MapGet(md, ri), MapGet(md, rj))
    IN  [parent |-> f3.parent,
         min_distance |-> IF ri # rj THEN MapInsert(md, root, best) ELSE md]

\* One iteration of `for (i, j, dist) in &matching_pairs`.
ProcessPair(par, md, e) ==
    LET f1 == find(par, e[1])
        ri == f1.root
        f2 == find(f1.parent, e[2])
        rj == f2.root
        u  == union(f2.parent, e[1], e[2])
        f3 == find(u, e[1])
        root == f3.root
        best == Best(e[3], MapGet(md, root), MapGet(md, ri), MapGet(md, rj))
    IN  [parent |-> f3.parent, min_distance |-> MapInsert(md, root, best)]

\* clusters: root -> the indices of its members, in non_exact order.
RECURSIVE ClusterFrom(_, _, _, _)
ClusterFrom(par, ne, root, i) ==
    IF i > Len(ne) - 1 THEN <<>>
    ELSE IF find(par, i).root = root
         THEN <<ne[i + 1].idx>> \o ClusterFrom(par, ne, root, i + 1)
         ELSE ClusterFrom(par, ne, root, i + 1)

cluster(par, ne, root) == ClusterFrom(par, ne, root, 0)
Roots(par, ne) == {find(par, i).root : i \in 0..(Len(ne) - 1)}

\* `if indices.len() > 1` of the cluster loop
IsVisualGroup(indices) == Len(indices) > 1

VisualRoots(par, ne) == {r \in Roots(par, ne) : IsVisualGroup(cluster(par, ne, r))}

\* The Visual groups with the recorded distance never looked up.
VisualGroups_ZeroDistance(par, md, ne, order) ==
    [k \in 1..Len(order) |->
        [match_kind |-> <<"Visual", 0>>,
         indices |-> cluster(par, ne, order[k])]]

\* The Visual groups, pushed in the order the map hands out its entries;
\* distance is min_distance.get(&root).copied().unwrap_or(0).
VisualGroups(par, md, ne, order) ==
    [k \in 1..Len(order) |->
        [match_kind |-> <<"Visual", IF order[k] \in DOMAIN md THEN md[order[k]] ELSE 0>>,
         indices |-> cluster(par, ne, order[k])]]

\* The pair rayon's ordered collect puts first: the least (i, j).
LexMin(S) ==
    CHOOSE e \in S : \A f \in S : e[1] < f[1] \/ (e[1] = f[1] /\ e[2] <= f[2])

\* The loop of lines 127-137 run to its end with the pairs in (i, j) order.
RECURSIVE RunInOrder(_, _, _)
RunInOrder(par, md, S) ==
    IF S = {} THEN [parent |-> par, min_distance |-> md]
    ELSE CHOOSE r \in {RunInOrder(st.parent, st.min_distance, rest) :
                          st \in {ProcessPair(par, md, LexMin(S))},
                          rest \in {S \ {LexMin(S)}}} : TRUE

\* Lines 61-78: phase 1.
Phase1 ==
    /\ UNCHANGED <<catVars, thumbVars, parVars, appVars, loadVars>>
    /\ pc = "start"
    /\ \E order \in Orders(ExactKeys(hashes)) :
          groups' = ExactGroups(hashes, order)
    /\ exact_matched' = ExactMatched(hashes)
    /\ pc' = "visual"
    /\ UNCHANGED <<files, hashes, threshold, non_exact, matching_pairs, parent, min_distance,
                   reordered, merged>>

\* Lines 82-107: non_exact, the pairwise distances and the initial parent array.
\* rayon's collect keeps the pairs in (i, j) order; the loop below may take them
\* in any order, so every delivery order is covered.
ComputePairs ==
    /\ UNCHANGED <<catVars, thumbVars, parVars, appVars, loadVars>>
    /\ pc = "visual"
    /\ non_exact' = NonExact(hashes, exact_matched)
    /\ matching_pairs' = MatchingPairs(NonExact(hashes, exact_matched), threshold)
    /\ parent' = [x \in 0..(Len(NonExact(hashes, exact_matched)) - 1) |-> x]
    /\ min_distance' = <<>>
    /\ pc' = "union"
    /\ UNCHANGED <<files, hashes, threshold, groups, exact_matched, reordered, merged>>

\* Lines 127-137: the loop consumes one matching pair.
UnionStep ==
    /\ UNCHANGED <<catVars, thumbVars, parVars, appVars, loadVars>>
    /\ pc = "union"
    /\ \E e \in matching_pairs :
          LET st == ProcessPair(parent, min_distance, e)
          IN  /\ parent' = st.parent
              /\ min_distance' = st.min_distance
              /\ matching_pairs' = matching_pairs \ {e}
              /\ reordered' = (reordered \/ e # LexMin(matching_pairs))
              /\ merged' = IF find(parent, e[1]).root # find(parent, e[2]).root
                           THEN Append(merged, e) ELSE merged
    /\ UNCHANGED <<pc, files, hashes, threshold, groups, exact_matched, non_exact>>

\* Lines 139-156: the clusters are collected and the groups returned.
CollectClusters ==
    /\ UNCHANGED <<catVars, thumbVars, parVars, appVars, loadVars>>
    /\ pc = "union"
    /\ matching_pairs = {}
    /\ \E order \in Orders(VisualRoots(parent, non_exact)) :
          groups' = groups \o VisualGroups(parent, min_distance, non_exact, order)
    /\ pc' = "done"
    /\ UNCHANGED <<files, hashes, threshold, exact_matched, non_exact, matching_pairs,
                   parent, min_distance, reordered, merged>>

CatalogIdle ==
    /\ disk = [p \in Paths |-> None]
    /\ images = {}
    /\ hashes_written = [p \in Paths |-> None]
    /\ summary_written = [p \in Paths |-> None]
    /\ cat_op = Op("open", "", None, None, None)

\* Sequences of length n over 0..n-1 in which every value is at most the number
\* of distinct values before it: one representative per renaming.
UpToRenaming(n) ==
    {s \in [1..n -> 0..(n - 1)] :
        \A k \in 1..n : s[k] <= Cardinality({s[j] : j \in 1..(k - 1)})}

\* find_duplicates is entered with any input of at most max entries.
\* Indices and digests are only ever compared for equality, so they are
\* enumerated up to renaming; an index may occur more than once.
InitDupUpTo(max) ==
    /\ CatalogIdle
    /\ ThumbIdle
    /\ ParIdle
    /\ AppIdle
    /\ LoadIdle
    /\ pc = "start"
    /\ files = <<>>
    /\ threshold \in 0..MaxThreshold
    /\ \E n \in 0..max :
         \E is \in UpToRenaming(n), cs \in UpToRenaming(n), ps \in [1..n -> PerceptualHashes] :
            hashes = [k \in 1..n |-> Entry(is[k], cs[k] + 1, ps[k])]
    /\ groups = <<>>
    /\ exact_matched = {}
    /\ non_exact = <<>>
    /\ matching_pairs = {}
    /\ parent = <<>>
    /\ min_distance = <<>>
    /\ reordered = FALSE
    /\ merged = <<>>

InitDup == InitDupUpTo(MaxImages)

\* The same entry with inputs one entry longer: two groups that share an index
\* take four entries.
InitDupWide == InitDupUpTo(MaxImages + 1)

NextDup ==
    \/ Phase1
    \/ ComputePairs
    \/ UnionStep
    \/ CollectClusters

SpecDup == InitDup /\ [][NextDup]_vars

SpecDupWide == InitDupWide /\ [][NextDup]_vars

(***************************************************************************)
(* A scan: compute_hashes_batch, then find_duplicates on what it produced. *)
(***************************************************************************)

\* What a file can hold: bytes that are no image, and five encoded images of
\* which "imgA" and "imgA2" are two encodings of the same pixels.
FileBytes == {"junk", "imgA", "imgA2", "imgB", "imgC", "imgD"}

\* Sha256::digest: a function of the bytes, distinct on distinct bytes here.
Sha256(b) ==
    CASE b = "junk" -> 11 [] b = "imgA" -> 12 [] b = "imgA2" -> 13
      [] b = "imgB" -> 14 [] b = "imgC" -> 15 [] b = "imgD" -> 16

\* image::load_from_memory followed by the 8x8 gradient hash: None when the
\* bytes do not decode, otherwise a function of the decoded pixels.
DecodeAndHash(b) ==
    CASE b = "junk" -> None [] b = "imgA" -> Some(<<0>>) [] b = "imgA2" -> Some(<<0>>)
      [] b = "imgB" -> Some(<<1>>) [] b = "imgC" -> Some(<<3>>) [] b = "imgD" -> Some(<<15>>)

\* compute_hashes on a file that is unreadable (None) or holds bytes.
compute_hashes(f) ==
    IF ~IsSome(f) THEN None
    ELSE IF ~IsSome(DecodeAndHash(Unwrap(f))) THEN None
    ELSE Some([content_hash |-> Sha256(Unwrap(f)),
               perceptual_hash |-> Unwrap(DecodeAndHash(Unwrap(f)))])

\* compute_hashes_batch over items (k - 1, file k): one (index, Option) per item, in order.
compute_hashes_batch(fs) == [k \in 1..Len(fs) |-> <<k - 1, compute_hashes(fs[k])>>]

\* The caller keeps the entries that carry a fingerprint (app.rs: dup_hashes.push).
RECURSIVE Fingerprinted(_, _)
Fingerprinted(results, k) ==
    IF k > Len(results) THEN <<>>
    ELSE IF IsSome(results[k][2])
         THEN <<Entry(results[k][1], Unwrap(results[k][2]).content_hash,
                      Unwrap(results[k][2]).perceptual_hash)>> \o Fingerprinted(results, k + 1)
         ELSE Fingerprinted(results, k + 1)

ComputeHashesBatch ==
    /\ UNCHANGED <<catVars, thumbVars, parVars, appVars, loadVars>>
    /\ pc = "scan"
    /\ hashes' = Fingerprinted(compute_hashes_batch(files), 1)
    /\ pc' = "start"
    /\ UNCHANGED <<files, threshold, groups, exact_matched, non_exact, matching_pairs,
                   parent, min_distance, reordered, merged>>

InitScan ==
    /\ CatalogIdle
    /\ ThumbIdle
    /\ ParIdle
    /\ AppIdle
    /\ LoadIdle
    /\ pc = "scan"
    /\ \E n \in 0..MaxImages :
          files \in [1..n -> {None} \cup {Some(b) : b \in FileBytes}]
    /\ threshold \in 0..MaxThreshold
    /\ hashes = <<>>
    /\ groups = <<>>
    /\ exact_matched = {}
    /\ non_exact = <<>>
    /\ matching_pairs = {}
    /\ parent = <<>>
    /\ min_distance = <<>>
    /\ reordered = FALSE
    /\ merged = <<>>

NextScan ==
    \/ ComputeHashesBatch
    \/ Phase1
    \/ ComputePairs
    \/ UnionStep
    \/ CollectClusters

SpecScan == InitScan /\ [][NextScan]_vars

\* const VISUAL_DUP_THRESHOLD: the threshold the application hands to find_duplicates.
VISUAL_DUP_THRESHOLD == 10

\* A scan of five files under the application's threshold: three files hold the
\* same bytes of one image, the other two hold two further images; the five
\* are listed in any order.
InitScanFive ==
    /\ CatalogIdle
    /\ ThumbIdle
    /\ ParIdle
    /\ AppIdle
    /\ LoadIdle
    /\ pc = "scan"
    /\ \E x, y, z \in {b \in FileBytes : IsSome(DecodeAndHash(b))} :
          /\ x # y /\ x # z /\ y # z
          /\ \E f \in [1..5 -> {x, y, z}] :
                /\ Cardinality({k \in 1..5 : f[k] = x}) = 3
                /\ Cardinality({k \in 1..5 : f[k] = y}) = 1
                /\ files = [k \in 1..5 |-> Some(f[k])]
    /\ threshold = VISUAL_DUP_THRESHOLD
    /\ hashes = <<>>
    /\ groups = <<>>
    /\ exact_matched = {}
    /\ non_exact = <<>>
    /\ matching_pairs = {}
    /\ parent = <<>>
    /\ min_distance = <<>>
    /\ reordered = FALSE
    /\ merged = <<>>

SpecScanFive == InitScanFive /\ [][NextScan]_vars

(***************************************************************************)
(* thumbnail.rs: generate_thumbnail on one file, called again and again    *)
(* while the file is rewritten and deleted between the calls.  The cache   *)
(* directory is readable and writable.                                     *)
(***************************************************************************)

MaxCalls == 2         \* generate_thumbnail is called at most MaxCalls times

ThumbPath == "a.jpg"
\* max_size: the application asks for 400; 200 stands for any other size.
MaxSizes == {200, 400}

\* What the decoders can get out of a file.  exif: the embedded preview
\* (Option [min_dim: smaller of its width and height, decodes]); jpeg: the
\* JPEG header and scan (Option [dim: native width = height, decodes: the
\* scaled decode yields RGB24/L8 pixels]); full: image::open succeeds.
PhotoContents ==
    { [name |-> "junk",    exif |-> None, jpeg |-> None, full |-> FALSE],
      [name |-> "png",     exif |-> None, jpeg |-> None, full |-> TRUE],
      [name |-> "camera",  exif |-> Some([min_dim |-> 300, decodes |-> TRUE]),
                           jpeg |-> Some([dim |-> 4000, decodes |-> TRUE]), full |-> TRUE],
      [name |-> "badprev", exif |-> Some([min_dim |-> 400, decodes |-> FALSE]),
                           jpeg |-> Some([dim |-> 600, decodes |-> TRUE]), full |-> TRUE],
      [name |-> "cmyk",    exif |-> Some([min_dim |-> 160, decodes |-> TRUE]),
                           jpeg |-> Some([dim |-> 4000, decodes |-> FALSE]), full |-> FALSE] }

ContentNamed(n) == CHOOSE c \in PhotoContents : c.name = n

\* The versions of the file: a camera JPEG, the same touched (later mtime),
\* the same bytes grown; other bytes under the first size and mtime; three
\* other files written over it.
PhotoVersions ==
    {[size |-> v[1], mtime |-> v[2], content |-> ContentNamed(v[3])] :
        v \in {<<1, 1, "camera">>, <<1, 2, "camera">>, <<2, 1, "camera">>,
                <<1, 1, "junk">>, <<2, 1, "badprev">>, <<1, 2, "cmyk">>, <<2, 1, "png">>}}

\* The file is missing (None) or holds one of the versions.
Photos == {None} \cup {Some(v) : v \in PhotoVersions}

\* An RGBA buffer: its length, and either the byte it is filled with or the
\* image (tier, file contents, size) it was resampled from.
Bitmap(px, w, h) == [pixels |-> px, width |-> w, height |-> h]

\* img.resize(max_size, max_size), apply_orientation, to_rgba8 on a square image.
resize(tier, c, max_size) ==
    Bitmap([len |-> max_size * max_size * 4, solid |-> None,
            image |-> Some(<<tier, c.name, max_size>>)], max_size, max_size)

\* A placeholder of three bytes per pixel.
placeholder_thumbnail_Rgb(size) ==
    Bitmap([len |-> size * size * 3, solid |-> Some(60), image |-> None], size, size)

\* placeholder_thumbnail: vec![60u8; size * size * 4], size, size.  The product
\* is a u32; it is below 2^32 for every size below 32768.
placeholder_thumbnail(size) ==
    Bitmap([len |-> size * size * 4, solid |-> Some(60), image |-> None], size, size)

\* A cache key that leaves max_size out of the digest.
cache_key_NoMaxSize(f, max_size) ==
    IF ~IsSome(f) THEN None
    ELSE Some(<<ThumbPath, Unwrap(f).size, Unwrap(f).mtime, 0>>)

\* cache_key: None when metadata() or canonicalize() fails; otherwise the hex
\* SHA-256 of path bytes, size (8 bytes), mtime (16 bytes), max_size (4 bytes).
\* The three numbers have fixed widths, so the digest input determines the
\* four values; the digest is taken as collision-free and stands as the tuple.
cache_key(f, max_size) ==
    IF ~IsSome(f) THEN None
    ELSE Some(<<ThumbPath, Unwrap(f).size, Unwrap(f).mtime, max_size>>)

\* qoi::encode_to_vec: fails on an empty image or a buffer that is not
\* width * height * 4 bytes long; otherwise header and payload.
qoi_encode(b) ==
    IF b.width = 0 \/ b.height = 0 \/ b.pixels.len # b.width * b.height * 4 THEN None
    ELSE Some([magic |-> "qoif", width |-> b.width, height |-> b.height,
               channels |-> 4, data |-> b.pixels])

\* qoi::decode_to_vec: (header, pixels), or an error on bytes that are no QOI.
qoi_decode(d) ==
    IF d.magic # "qoif" THEN None ELSE Some(Bitmap(d.data, d.width, d.height))

\* image::open(&legacy_path) followed by to_rgba8.
open_legacy(d) ==
    IF d.magic # "jfif" THEN None ELSE Some(Bitmap(d.data, d.width, d.height))

CacheFile(cache, key, ext) == {e \in cache : e.key = key /\ e.ext = ext}

\* Lines 13-29: the QOI file of the key, then the legacy JPEG file of the key.
read_cache(cache, key) ==
    LET q == {e \in CacheFile(cache, key, "qoi") : IsSome(qoi_decode(e.bytes))}
        j == {e \in CacheFile(cache, key, "jpg") : IsSome(open_legacy(e.bytes))}
    IN  IF q # {} THEN LET e == CHOOSE x \in q : TRUE
                       IN  Some([entry |-> e, bitmap |-> Unwrap(qoi_decode(e.bytes))])
        ELSE IF j # {} THEN LET e == CHOOSE x \in j : TRUE
                            IN  Some([entry |-> e, bitmap |-> Unwrap(open_legacy(e.bytes))])
        ELSE None

\* save_to_cache that writes nothing.
save_to_cache_Never(cache, key, b, meta) == cache

\* save_to_cache: the QOI file of the key is (over)written when encoding works.
\* written_for is history: the size, mtime and max_size the writer saw.
save_to_cache(cache, key, b, meta) ==
    IF ~IsSome(qoi_encode(b)) THEN cache
    ELSE (cache \ CacheFile(cache, key, "qoi"))
            \cup {[key |-> key, ext |-> "qoi", bytes |-> Unwrap(qoi_encode(b)),
                   written_for |-> meta]}

\* The preview is always taken to be large enough.
large_enough_Always(c, max_size) == IsSome(c.exif)

\* Lines 48-55: min(width, height) of the embedded preview >= max_size.
large_enough(c, max_size) ==
    IsSome(c.exif) /\ Unwrap(c.exif).min_dim >= max_size

\* jpeg_decoder's scale(): the output of the largest of the factors 1/8, 1/4,
\* 1/2, 1 that still yields at least the requested size, the native size if none.
ScaledDim(dim, max_size) ==
    LET ok == {f \in {1, 2, 4, 8} : (dim + f - 1) \div f >= max_size}
    IN  IF ok = {} THEN dim ELSE (dim + SetMax(ok) - 1) \div SetMax(ok)

\* decode_jpeg_scaled: None unless the header reads, the decoder downscaled
\* and the scan decodes to RGB24 or L8.
decode_jpeg_scaled(c, max_size) ==
    IF ~IsSome(c.jpeg) THEN None
    ELSE IF ScaledDim(Unwrap(c.jpeg).dim, max_size) = Unwrap(c.jpeg).dim THEN None
    ELSE IF ~Unwrap(c.jpeg).decodes THEN None
    ELSE Some(ScaledDim(Unwrap(c.jpeg).dim, max_size))

\* generate_thumbnail_uncached: the bitmap, the tier it came from and the
\* tiers whose decode was started, in order.
generate_thumbnail_uncached(f, max_size) ==
    IF ~IsSome(f)
    THEN [bitmap |-> placeholder_thumbnail(max_size), src |-> "placeholder",
          tried |-> <<"scaled", "full">>]
    ELSE LET c == Unwrap(f).content
             t2 == IF large_enough(c, max_size) THEN <<"exif">> ELSE <<>>
         IN  IF large_enough(c, max_size) /\ Unwrap(c.exif).decodes
             THEN [bitmap |-> resize("exif", c, max_size), src |-> "exif", tried |-> t2]
             ELSE IF IsSome(decode_jpeg_scaled(c, max_size))
             THEN [bitmap |-> resize("scaled", c, max_size), src |-> "scaled",
                   tried |-> t2 \o <<"scaled">>]
             ELSE IF c.full
             THEN [bitmap |-> resize("full", c, max_size), src |-> "full",
                   tried |-> t2 \o <<"scaled", "full">>]
             ELSE [bitmap |-> placeholder_thumbnail(max_size), src |-> "placeholder",
                   tried |-> t2 \o <<"scaled", "full">>]

\* What stat() shows of the file when the call starts, with the requested
\* size (history; made_for below is the cache files written for just that).
MetaOf(f, max_size) ==
    IF ~IsSome(f) THEN None
    ELSE Some([size |-> Unwrap(f).size, mtime |-> Unwrap(f).mtime, max_size |-> max_size])

\* generate_thumbnail(path, max_size): the whole call.
generate_thumbnail(max_size) ==
    LET key == cache_key(photo, max_size)
        hit == IF IsSome(key) THEN read_cache(thumb_cache, Unwrap(key)) ELSE None
        gen == generate_thumbnail_uncached(photo, max_size)
        rec == [max_size |-> max_size, meta |-> MetaOf(photo, max_size),
                file |-> photo, touched |-> touched,
                made_for |-> {e \in thumb_cache :
                                 Some(e.written_for) = MetaOf(photo, max_size)}]
    IN  /\ calls < MaxCalls
        /\ calls' = calls + 1
        /\ prev_call' = call
        /\ touched' = FALSE
        /\ UNCHANGED photo
        /\ IF IsSome(hit)
           THEN /\ call' = Some(rec @@
                                [ret |-> Unwrap(hit).bitmap, src |-> "cache",
                                 tried |-> <<"cache">>, hit |-> Some(Unwrap(hit).entry),
                                 wrote |-> FALSE])
                /\ UNCHANGED thumb_cache
           ELSE /\ thumb_cache' =
                      IF IsSome(key)
                      THEN save_to_cache(thumb_cache, Unwrap(key), gen.bitmap,
                                         Unwrap(MetaOf(photo, max_size)))
                      ELSE thumb_cache
                /\ call' = Some(rec @@
                                [ret |-> gen.bitmap, src |-> gen.src,
                                 tried |-> <<"cache">> \o gen.tried, hit |-> None,
                                 wrote |-> (thumb_cache' # thumb_cache)])

\* The file is written (or created): its contents, size or mtime change.
WritePhoto(f) ==
    /\ f # None
    /\ f # photo
    /\ photo' = f
    /\ touched' = TRUE
    /\ UNCHANGED <<thumb_cache, call, prev_call, calls>>

\* The file is deleted.
DeletePhoto ==
    /\ photo # None
    /\ photo' = None
    /\ touched' = TRUE
    /\ UNCHANGED <<thumb_cache, call, prev_call, calls>>

\* Files an earlier run may have left in the cache directory: a legacy JPEG
\* thumbnail, a valid QOI thumbnail, a truncated QOI file; each under the key of
\* the size, mtime and max_size it was made for.
OldCacheFiles ==
    {[key |-> Unwrap(cache_key(Some([size |-> id.size, mtime |-> id.mtime]), n)),
      ext |-> k[1],
      bytes |-> [magic |-> k[2], width |-> n, height |-> n, channels |-> k[3],
                 data |-> [len |-> n * n * 4, solid |-> None,
                           image |-> Some(<<"old", "old", n>>)]],
      written_for |-> [size |-> id.size, mtime |-> id.mtime, max_size |-> n]] :
        id \in {[size |-> 1, mtime |-> 1]}, n \in MaxSizes,
        k \in {<<"jpg", "jfif", 3>>, <<"qoi", "qoif", 4>>, <<"qoi", "", 0>>}}

InitThumb ==
    /\ CatalogIdle
    /\ ParIdle
    /\ AppIdle
    /\ LoadIdle
    /\ DupIdle
    /\ photo \in Photos
    /\ thumb_cache \in {{}} \cup {{e} : e \in OldCacheFiles}
    /\ call = None
    /\ prev_call = None
    /\ calls = 0
    /\ touched = FALSE

GenerateThumbnail ==
    /\ UNCHANGED <<catVars, dupVars, parVars, appVars, loadVars>>
    /\ \E max_size \in MaxSizes : generate_thumbnail(max_size)

PhotoWritten ==
    /\ UNCHANGED <<catVars, dupVars, parVars, appVars, loadVars>>
    /\ \E f \in Photos : WritePhoto(f)

PhotoDeleted ==
    /\ UNCHANGED <<catVars, dupVars, parVars, appVars, loadVars>>
    /\ DeletePhoto

NextThumb ==
    \/ GenerateThumbnail
    \/ PhotoWritten
    \/ PhotoDeleted

SpecThumb == InitThumb /\ [][NextThumb]_vars

(***************************************************************************)
(* compute_hashes_batch and generate_thumbnails_parallel: the closure runs *)
(* once per input item on rayon's pool, the items finish in any order, and *)
(* collect() of the indexed iterator puts each result at its item's        *)
(* position.  Both functions are called on the same batch, one after the   *)
(* other, as the application does for the images of a folder.              *)
(***************************************************************************)

MaxBatch == 3         \* a batch holds at most MaxBatch items

\* image_paths[i] of the folder.
BatchPath(i) == <<"photo", i>>

\* The batches load_next_dup_batch drains from dup_pending: (index, path)
\* pairs in rising index order, the files with a cached fingerprint left out.
Batches ==
    {b \in UNION {[1..n -> 0..MaxBatch] : n \in 0..MaxBatch} :
        \A k \in 1..(Len(b) - 1) : b[k] < b[k + 1]}

\* What a file of the batch holds: nothing readable, bytes that are no image,
\* a camera JPEG, a PNG.  `bytes` is what std::fs::read returns, `photo` what
\* stat() and the decoders see of the same file.
BatchFiles ==
    {None,
     Some([bytes |-> "junk", photo |-> [size |-> 1, mtime |-> 1, content |-> ContentNamed("junk")]]),
     Some([bytes |-> "imgA", photo |-> [size |-> 1, mtime |-> 1, content |-> ContentNamed("camera")]]),
     Some([bytes |-> "imgB", photo |-> [size |-> 2, mtime |-> 1, content |-> ContentNamed("png")]])}

BytesOf(f) == IF IsSome(f) THEN Some(Unwrap(f).bytes) ELSE None
PhotoOf(f) == IF IsSome(f) THEN Some(Unwrap(f).photo) ELSE None

\* cache_key for the file at path p.
cache_key_at(p, f, max_size) ==
    IF ~IsSome(f) THEN None
    ELSE Some(<<p, Unwrap(f).size, Unwrap(f).mtime, max_size>>)

\* generate_thumbnail(p, max_size) on cache directory `cache`: the bitmap it
\* returns and the cache directory it leaves.
thumbnail_at(cache, p, f, max_size) ==
    LET key == cache_key_at(p, f, max_size)
        hit == IF IsSome(key) THEN read_cache(cache, Unwrap(key)) ELSE None
        gen == generate_thumbnail_uncached(f, max_size)
    IN  IF IsSome(hit) THEN [bitmap |-> Unwrap(hit).bitmap, cache |-> cache]
        ELSE [bitmap |-> gen.bitmap,
              cache |-> IF IsSome(key)
                        THEN save_to_cache(cache, Unwrap(key), gen.bitmap,
                                           Unwrap(MetaOf(f, max_size)))
                        ELSE cache]

\* A closure finishing at position k: its result goes to slot k.
Finish(k, result) ==
    /\ par_slots' = [par_slots EXCEPT ![k] = Some(result)]
    /\ par_unordered' =
          [par_unordered EXCEPT ![par_fn] = @ \/ \E j \in 1..(k - 1) : par_slots[j] = None]

\* |(idx, path)| (*idx, compute_hashes(path))
HashClosure ==
    /\ UNCHANGED <<catVars, dupVars, thumbVars, appVars, loadVars>>
    /\ par_fn = "compute_hashes_batch"
    /\ par_ret[par_fn] = None
    /\ \E k \in 1..Len(par_items) :
          /\ par_slots[k] = None
          /\ Finish(k, <<par_items[k].idx,
                         compute_hashes(BytesOf(par_files[par_items[k].path]))>>)
    /\ UNCHANGED <<par_fn, par_max_size, par_items, par_files, par_ret>>

\* |p| { let (rgba, w, h) = generate_thumbnail(p, max_size); (p.clone(), rgba, w, h) }
ThumbClosure ==
    /\ UNCHANGED <<catVars, dupVars, appVars, loadVars>>
    /\ par_fn = "generate_thumbnails_parallel"
    /\ par_ret[par_fn] = None
    /\ \E k \in 1..Len(par_items) :
          LET p == par_items[k].path
              t == thumbnail_at(thumb_cache, p, PhotoOf(par_files[p]), par_max_size)
          IN  /\ par_slots[k] = None
              /\ Finish(k, [path |-> p, rgba |-> t.bitmap.pixels,
                            width |-> t.bitmap.width, height |-> t.bitmap.height])
              /\ thumb_cache' = t.cache
    /\ UNCHANGED <<photo, call, prev_call, calls, touched>>
    /\ UNCHANGED <<par_fn, par_max_size, par_items, par_files, par_ret>>

\* A collect that leaves out the items whose closure failed: no fingerprint,
\* or the placeholder in place of a thumbnail.
collect_DropFailed(slots) ==
    IF par_fn = "compute_hashes_batch"
    THEN SelectSeq([k \in 1..Len(slots) |-> Unwrap(slots[k])], LAMBDA x : x[2] # None)
    ELSE SelectSeq([k \in 1..Len(slots) |-> Unwrap(slots[k])], LAMBDA x : x.rgba.solid = None)

\* .collect() of an indexed parallel iterator: one element per item, in input order.
collect(slots) == [k \in 1..Len(slots) |-> Unwrap(slots[k])]

\* The call returns once every closure has finished.
CollectBatch ==
    /\ UNCHANGED <<catVars, dupVars, thumbVars, appVars, loadVars>>
    /\ par_fn \in ParFns
    /\ par_ret[par_fn] = None
    /\ \A k \in 1..Len(par_items) : par_slots[k] # None
    /\ par_ret' = [par_ret EXCEPT ![par_fn] = Some(collect(par_slots))]
    /\ UNCHANGED <<par_fn, par_max_size, par_items, par_files, par_slots, par_unordered>>

\* The function not yet called is called on the same batch.
CallOther ==
    /\ UNCHANGED <<catVars, dupVars, thumbVars, appVars, loadVars>>
    /\ par_fn \in ParFns
    /\ par_ret[par_fn] # None
    /\ \E f \in ParFns :
          /\ par_ret[f] = None
          /\ par_fn' = f
    /\ par_slots' = [k \in 1..Len(par_items) |-> None]
    /\ UNCHANGED <<par_max_size, par_items, par_files, par_ret, par_unordered>>

InitBatch ==
    /\ CatalogIdle
    /\ AppIdle
    /\ LoadIdle
    /\ DupIdle
    /\ photo = None
    /\ thumb_cache = {}
    /\ call = None
    /\ prev_call = None
    /\ calls = 0
    /\ touched = FALSE
    /\ par_fn \in ParFns
    /\ par_max_size \in MaxSizes
    /\ \E b \in Batches :
          /\ par_items = [k \in 1..Len(b) |-> [idx |-> b[k], path |-> BatchPath(b[k])]]
          /\ par_files \in [{BatchPath(b[k]) : k \in 1..Len(b)} -> BatchFiles]
          /\ par_slots = [k \in 1..Len(b) |-> None]
    /\ par_ret = [f \in ParFns |-> None]
    /\ par_unordered = [f \in ParFns |-> FALSE]

NextBatch ==
    \/ HashClosure
    \/ ThumbClosure
    \/ CollectBatch
    \/ CallOther

SpecBatch == InitBatch /\ [][NextBatch]_vars

(***************************************************************************)
(* app.rs: the duplicate scan of the orchestrator.  update() handles one   *)
(* message at a time; the Tasks it returns run on the runtime's pool and   *)
(* their messages come back in any order.  The files may be rewritten or   *)
(* removed at any moment.                                                  *)
(***************************************************************************)

MaxScans == 2           \* FindDuplicates is pressed at most MaxScans times
MaxFolderChanges == 1   \* a folder is picked at most MaxFolderChanges times
MaxWrites == 1          \* the files are rewritten or removed at most MaxWrites times
DupBatchSize == 1       \* the batch size, standing for DUP_HASH_BATCH_SIZE

\* The folders that can be opened and the image files scan_folder finds in them.
AppFolders == {"X", "Y"}
FolderFiles(f) == IF f = "X" THEN <<"x1.jpg", "x2.jpg">> ELSE <<"y1.jpg">>
AppPaths == UNION {Range(FolderFiles(f)) : f \in AppFolders}

\* scan_folder: the image files of the folder, sorted.
scan_folder(f) == SelectSeq(FolderFiles(f), LAMBDA p : IsSome(disk[p]))

\* std::fs::read
read(p) == IF IsSome(disk[p]) THEN Some(Unwrap(disk[p]).bytes) ELSE None

\* A file rewritten: other bytes under a later mtime.
Rewritten(p) == [size |-> 1, mtime |-> 2, bytes |-> "imgC"]

\* read_file_summary: dimensions when the file decodes, no EXIF date, the
\* formatted mtime when metadata() works.
read_file_summary(p) ==
    [dimensions |-> IF IsSome(compute_hashes(read(p))) THEN Some(<<4, 3>>) ELSE None,
     date_taken |-> None,
     date_modified |-> IF IsSome(disk[p]) THEN Some(<<"utc", Unwrap(disk[p]).mtime>>) ELSE None]

\* state.image_paths.get(idx)
PathAt(paths, idx) == IF idx < Len(paths) THEN Some(paths[idx + 1]) ELSE None

\* for (i, path) in image_paths.iter().enumerate() { if let Some(..) = get_hashes(path) .. }
CachedPositions(tbl, paths) ==
    SelectSeq([i \in 1..Len(paths) |-> i], LAMBDA i : IsSome(get_hashes_in(tbl, paths[i])))
UncachedPositions(tbl, paths) ==
    SelectSeq([i \in 1..Len(paths) |-> i], LAMBDA i : ~IsSome(get_hashes_in(tbl, paths[i])))

cached_hashes(tbl, paths) ==
    LET ix == CachedPositions(tbl, paths)
    IN  [k \in 1..Len(ix) |->
            Entry(ix[k] - 1, Unwrap(get_hashes_in(tbl, paths[ix[k]]))[1],
                             Unwrap(get_hashes_in(tbl, paths[ix[k]]))[2])]

\* cached_summaries: index -> the summary get_file_summary returns.
cached_summaries(tbl, paths) ==
    [i \in {j \in 0..(Len(paths) - 1) : IsSome(get_file_summary_in(tbl, paths[j + 1]))} |->
        Unwrap(get_file_summary_in(tbl, paths[i + 1]))]

\* The union-find and the tracker after the loop over the matching pairs of
\* ne.  Here and below a value is drawn from a one-element set, which makes
\* it a value computed once.
clustered(ne, t) ==
    {RunInOrder(p0, <<>>, mp) :
        p0 \in {[x \in 0..(Len(ne) - 1) |-> x]}, mp \in {MatchingPairs(ne, t)}}

\* Lines 139-156 on that state: the Visual groups.
visual_groups(ne, t) ==
    {VisualGroups(st.parent, st.min_distance, ne,
                  CHOOSE o \in Orders(VisualRoots(st.parent, ne)) : TRUE) :
        st \in clustered(ne, t)}

\* duplicates::find_duplicates(&hashes, threshold); the groups of each kind
\* are listed in one of the orders the hash maps may hand them out.
find_duplicates(hs, t) ==
    CHOOSE gs \in UNION {{ExactGroups(hs, CHOOSE o \in Orders(ExactKeys(hs)) : TRUE) \o v :
                             v \in visual_groups(ne, t)} :
                         ne \in {NonExact(hs, ExactMatched(hs))}} : TRUE

\* duplicate_indices collecting only the first index of every group.
duplicate_indices_FirstOnly(gs) == {gs[k].indices[1] : k \in 1..Len(gs)}

\* duplicates::duplicate_indices
duplicate_indices(gs) == UNION {Range(gs[k].indices) : k \in 1..Len(gs)}

\* A Task handed to the runtime.  scan and gen are history: the number of the
\* duplicate scan and of the folder choice the task was made for.
Task(kind, payload) ==
    [kind |-> kind, payload |-> payload, results |-> None, scan |-> scan_no, gen |-> folder_gen]
TaskOf(kind, payload, s) ==
    [kind |-> kind, payload |-> payload, results |-> None, scan |-> s, gen |-> folder_gen]

Min(a, b) == IF a < b THEN a ELSE b

\* load_next_dup_batch for scan s: what is left of dup_pending and the Task returned.
load_next_dup_batch(pending, s) ==
    IF pending = <<>> THEN [pending |-> <<>>, tasks |-> {}]
    ELSE LET count == Min(DupBatchSize, Len(pending))
         IN  [pending |-> SubSeq(pending, count + 1, Len(pending)),
              tasks |-> {TaskOf("hash", SubSeq(pending, 1, count), s)}]

\* The body of the analysis Task: (groups, summaries).
analysis(hs, paths, cached) ==
    CHOOSE r \in
        {[groups |-> gs,
          summaries |-> [i \in {j \in duplicate_indices(gs) :
                                    j \in DOMAIN cached \/ j < Len(paths)} |->
                            IF i \in DOMAIN cached THEN cached[i]
                            ELSE read_file_summary(paths[i + 1])]] :
            gs \in {find_duplicates(hs, VISUAL_DUP_THRESHOLD)}} : TRUE

\* What the last handler did (history).
Did(msg, task, pushed, wrote, summarised, dispatched) ==
    [msg |-> msg, task |-> task, pushed |-> pushed, wrote |-> wrote,
     summarised |-> summarised, dispatched |-> dispatched]

\* Persisted without the `if let Some(cat) = &state.catalog` test.
Persisted_NoCatalogTest(results) ==
    {k \in 1..Len(results) :
        /\ IsSome(results[k].hash)
        /\ IsSome(PathAt(image_paths, results[k].idx))
        /\ IsSome(file_size_and_mtime(Unwrap(PathAt(image_paths, results[k].idx))))}

\* The results of a batch that are written to the catalog: the item carries a
\* fingerprint, the catalog is open, image_paths has the index and stat works.
Persisted(results) ==
    {k \in 1..Len(results) :
        /\ IsSome(results[k].hash)
        /\ catalog
        /\ IsSome(PathAt(image_paths, results[k].idx))
        /\ IsSome(file_size_and_mtime(Unwrap(PathAt(image_paths, results[k].idx))))}

\* The loop `for (idx, maybe_hash) in results` on the catalog.
RECURSIVE PersistFrom(_, _, _)
PersistFrom(tbl, results, k) ==
    IF k > Len(results) THEN tbl
    ELSE IF k \notin Persisted(results) THEN PersistFrom(tbl, results, k + 1)
    ELSE LET p == Unwrap(PathAt(image_paths, results[k].idx))
             id == Unwrap(file_size_and_mtime(p))
             h == Unwrap(results[k].hash)
         IN  PersistFrom(UpsertHashes(tbl, p, id.size, id.mtime,
                                      h.content_hash, h.perceptual_hash),
                         results, k + 1)

\* The insert_hashes calls of that loop (history): where the fingerprint was
\* stored, under which identity, and which file it was computed from.
HashWrites(results) ==
    {[path |-> Unwrap(PathAt(image_paths, results[k].idx)),
      identity |-> Unwrap(file_size_and_mtime(Unwrap(PathAt(image_paths, results[k].idx)))),
      hash |-> Unwrap(results[k].hash),
      from |-> results[k].path,
      seen |-> results[k].seen] : k \in Persisted(results)}

\* The push loop without the `if let Some(h) = maybe_hash` test: a failed item
\* is pushed with empty hashes.
RECURSIVE PushFrom_KeepFailed(_, _, _)
PushFrom_KeepFailed(hs, results, k) ==
    IF k > Len(results) THEN hs
    ELSE IF IsSome(results[k].hash)
         THEN PushFrom_KeepFailed(
                  Append(hs, Entry(results[k].idx, Unwrap(results[k].hash).content_hash,
                                   Unwrap(results[k].hash).perceptual_hash)),
                  results, k + 1)
         ELSE PushFrom_KeepFailed(Append(hs, Entry(results[k].idx, <<>>, <<>>)),
                                  results, k + 1)

\* The loop `state.dup_hashes.push((idx, h))`.
RECURSIVE PushFrom(_, _, _)
PushFrom(hs, results, k) ==
    IF k > Len(results) THEN hs
    ELSE IF IsSome(results[k].hash)
         THEN PushFrom(Append(hs, Entry(results[k].idx, Unwrap(results[k].hash).content_hash,
                                        Unwrap(results[k].hash).perceptual_hash)),
                       results, k + 1)
         ELSE PushFrom(hs, results, k + 1)

\* The summaries a handler writes to the catalog: the catalog is open,
\* image_paths has the index and stat works.
SummaryKeys(summaries) ==
    {i \in DOMAIN summaries :
        /\ catalog
        /\ IsSome(PathAt(image_paths, i))
        /\ IsSome(file_size_and_mtime(Unwrap(PathAt(image_paths, i))))}

\* The loop `for (idx, summary) in &summaries` on the catalog.
RECURSIVE PersistSummaries(_, _, _)
PersistSummaries(tbl, summaries, todo) ==
    IF todo = {} THEN tbl
    ELSE LET i == CHOOSE x \in todo : TRUE
             p == Unwrap(PathAt(image_paths, i))
             id == Unwrap(file_size_and_mtime(p))
         IN  PersistSummaries(UpsertSummary(tbl, p, id.size, id.mtime, summaries[i]),
                              summaries, todo \ {i})

SummaryWrites(summaries) ==
    {[path |-> Unwrap(PathAt(image_paths, i)), summary |-> summaries[i]] :
        i \in SummaryKeys(summaries)}

\* Message::FolderSelected(Some(path))
FolderSelected ==
    /\ UNCHANGED <<dupVars, thumbVars, parVars, loadVars>>
    /\ folder_gen < MaxFolderChanges
    /\ \E f \in AppFolders :
          /\ folder' = Some(f)
          /\ tasks' = tasks \cup {[kind |-> "scan", payload |-> f, results |-> None,
                                   scan |-> scan_no, gen |-> folder_gen + 1]}
          /\ last' = Did("FolderSelected", None, <<>>, {}, {},
                         {[kind |-> "scan", payload |-> f, results |-> None,
                           scan |-> scan_no, gen |-> folder_gen + 1]})
    /\ folder_gen' = folder_gen + 1
    /\ image_paths' = <<>>
    /\ dup_hashes' = <<>>
    /\ dup_pending' = <<>>
    /\ dup_scanning' = FALSE
    /\ dup_groups' = <<>>
    /\ dup_badge_set' = {}
    /\ dup_summaries' = <<>>
    /\ UNCHANGED <<catalog, dup_total, scan_no, cancelled, writes, catVars, loadVars>>

\* Message::ImagesFound(paths), paths being what scan_folder listed.
ImagesFound ==
    /\ UNCHANGED <<dupVars, thumbVars, parVars, loadVars>>
    /\ \E t \in tasks :
          /\ t.kind = "scan"
          /\ LET paths == scan_folder(t.payload)
                 tbl == IF catalog THEN PruneFrom(images, {r.path : r \in images}) ELSE images
                 cached == cached_hashes(tbl, paths)
                 auto == catalog /\ Len(cached) >= 2
                 new == IF auto
                        THEN {[kind |-> "cached_analysis",
                               payload |-> [hashes |-> cached, paths |-> paths,
                                            cached |-> cached_summaries(tbl, paths)],
                               results |-> None, scan |-> scan_no, gen |-> t.gen]}
                        ELSE {}
             IN  /\ images' = tbl
                 /\ image_paths' = paths
                 /\ dup_hashes' = IF auto THEN cached ELSE dup_hashes
                 /\ tasks' = (tasks \ {t}) \cup new
                 /\ last' = Did("ImagesFound", Some(t), <<>>, {}, {}, new)
    /\ UNCHANGED <<disk, hashes_written, summary_written, cat_op>>
    /\ UNCHANGED <<catalog, folder, dup_pending, dup_scanning, dup_total, dup_groups,
                   dup_badge_set, dup_summaries, scan_no, folder_gen, cancelled, writes>>

\* Message::FindDuplicates; the button is shown while image_paths is not empty
\* and no scan is running.
FindDuplicates ==
    /\ UNCHANGED <<dupVars, thumbVars, parVars, catVars, loadVars>>
    /\ image_paths # <<>>
    /\ ~dup_scanning
    /\ scan_no < MaxScans
    /\ LET tbl == IF catalog THEN images ELSE {}
           ux == UncachedPositions(tbl, image_paths)
           pending == [k \in 1..Len(ux) |-> [idx |-> ux[k] - 1, path |-> image_paths[ux[k]]]]
           lb == load_next_dup_batch(pending, scan_no + 1)
       IN  /\ dup_hashes' = cached_hashes(tbl, image_paths)
           /\ dup_pending' = lb.pending
           /\ tasks' = tasks \cup lb.tasks
           /\ last' = Did("FindDuplicates", None, <<>>, {}, {}, lb.tasks)
    /\ dup_groups' = <<>>
    /\ dup_badge_set' = {}
    /\ dup_summaries' = <<>>
    /\ dup_scanning' = TRUE
    /\ dup_total' = Len(image_paths)
    /\ scan_no' = scan_no + 1
    /\ UNCHANGED <<catalog, folder, image_paths, folder_gen, cancelled, writes>>

\* Message::CancelDupScan; the button is shown while a scan is running.
CancelDupScan ==
    /\ UNCHANGED <<dupVars, thumbVars, parVars, catVars, loadVars>>
    /\ image_paths # <<>>
    /\ dup_scanning
    /\ dup_pending' = <<>>
    /\ dup_scanning' = FALSE
    /\ dup_hashes' = <<>>
    /\ dup_total' = 0
    /\ cancelled' = cancelled \cup {scan_no}
    /\ last' = Did("CancelDupScan", None, <<>>, {}, {}, {})
    /\ UNCHANGED <<catalog, folder, image_paths, dup_groups, dup_badge_set, dup_summaries,
                   tasks, scan_no, folder_gen, writes>>

\* The body of a hash Task runs: compute_hashes_batch(&batch) on the files as
\* they are now.  path and seen are history: the file hashed and what stat()
\* showed of it at that moment.
RunHashBatch ==
    /\ UNCHANGED <<dupVars, thumbVars, parVars, catVars, loadVars>>
    /\ \E t \in tasks :
          /\ t.kind = "hash"
          /\ t.results = None
          /\ tasks' = (tasks \ {t}) \cup
                {[t EXCEPT !.results =
                    Some([k \in 1..Len(t.payload) |->
                            [idx |-> t.payload[k].idx,
                             hash |-> compute_hashes(read(t.payload[k].path)),
                             path |-> t.payload[k].path,
                             seen |-> file_size_and_mtime(t.payload[k].path)]])]}
    /\ UNCHANGED <<catalog, folder, image_paths, dup_hashes, dup_pending, dup_scanning,
                   dup_total, dup_groups, dup_badge_set, dup_summaries, scan_no, folder_gen,
                   cancelled, writes, last>>

\* Message::DupHashBatchReady(results)
DupHashBatchReady ==
    /\ UNCHANGED <<dupVars, thumbVars, parVars, loadVars>>
    /\ \E t \in tasks :
          /\ t.kind = "hash"
          /\ t.results # None
          /\ IF ~dup_scanning
             THEN /\ tasks' = tasks \ {t}
                  /\ last' = Did("DupHashBatchReady", Some(t), <<>>, {}, {}, {})
                  /\ UNCHANGED <<images, hashes_written, dup_hashes, dup_pending>>
             ELSE LET results == Unwrap(t.results)
                      tbl == PersistFrom(images, results, 1)
                      hs == PushFrom(dup_hashes, results, 1)
                      lb == load_next_dup_batch(dup_pending, scan_no)
                      new == IF dup_pending = <<>>
                             THEN {Task("analysis",
                                        [hashes |-> hs, paths |-> image_paths,
                                         cached |-> IF catalog
                                                    THEN cached_summaries(tbl, image_paths)
                                                    ELSE <<>>])}
                             ELSE lb.tasks
                  IN  /\ images' = tbl
                      /\ hashes_written' =
                            [p \in DOMAIN hashes_written |->
                                IF \E w \in HashWrites(results) : w.path = p
                                THEN Some((CHOOSE w \in HashWrites(results) : w.path = p).identity)
                                ELSE hashes_written[p]]
                      /\ dup_hashes' = hs
                      /\ dup_pending' = lb.pending
                      /\ tasks' = (tasks \ {t}) \cup new
                      /\ last' = Did("DupHashBatchReady", Some(t), PushFrom(<<>>, results, 1),
                                     HashWrites(results), {}, new)
    /\ UNCHANGED <<disk, summary_written, cat_op>>
    /\ UNCHANGED <<catalog, folder, image_paths, dup_scanning, dup_total, dup_groups,
                   dup_badge_set, dup_summaries, scan_no, folder_gen, cancelled, writes>>

\* Message::DupAnalysisReady(groups, summaries), the Task's body having run on
\* the files as they are now.
DupAnalysisReady ==
    /\ UNCHANGED <<dupVars, thumbVars, parVars, loadVars>>
    /\ \E t \in tasks :
          /\ t.kind = "analysis"
          /\ \E res \in {analysis(t.payload.hashes, t.payload.paths, t.payload.cached)} :
                 /\ dup_scanning' = FALSE
                 /\ dup_badge_set' = duplicate_indices(res.groups)
                 /\ dup_groups' = res.groups
                 /\ images' = PersistSummaries(images, res.summaries, SummaryKeys(res.summaries))
                 /\ summary_written' =
                       [p \in DOMAIN summary_written |->
                           IF \E w \in SummaryWrites(res.summaries) : w.path = p
                           THEN file_size_and_mtime(p) ELSE summary_written[p]]
                 /\ dup_summaries' = res.summaries
                 /\ tasks' = tasks \ {t}
                 /\ last' = Did("DupAnalysisReady", Some(t), <<>>, {},
                                SummaryWrites(res.summaries), {})
    /\ UNCHANGED <<disk, hashes_written, cat_op>>
    /\ UNCHANGED <<catalog, folder, image_paths, dup_hashes, dup_pending, dup_total,
                   scan_no, folder_gen, cancelled, writes>>

\* Message::CachedDupAnalysisReady(groups, summaries)
CachedDupAnalysisReady ==
    /\ UNCHANGED <<dupVars, thumbVars, parVars, loadVars>>
    /\ \E t \in tasks :
          /\ t.kind = "cached_analysis"
          /\ tasks' = tasks \ {t}
          /\ \E res \in {analysis(t.payload.hashes, t.payload.paths, t.payload.cached)} :
                 IF ~dup_scanning
                 THEN /\ dup_badge_set' = duplicate_indices(res.groups)
                      /\ dup_groups' = res.groups
                      /\ images' = PersistSummaries(images, res.summaries,
                                                    SummaryKeys(res.summaries))
                      /\ summary_written' =
                            [p \in DOMAIN summary_written |->
                                IF \E w \in SummaryWrites(res.summaries) : w.path = p
                                THEN file_size_and_mtime(p) ELSE summary_written[p]]
                      /\ dup_summaries' = res.summaries
                      /\ last' = Did("CachedDupAnalysisReady", Some(t), <<>>, {},
                                     SummaryWrites(res.summaries), {})
                 ELSE /\ last' = Did("CachedDupAnalysisReady", Some(t), <<>>, {}, {}, {})
                      /\ UNCHANGED <<dup_badge_set, dup_groups, images, summary_written,
                                     dup_summaries>>
    /\ UNCHANGED <<disk, hashes_written, cat_op>>
    /\ UNCHANGED <<catalog, folder, image_paths, dup_hashes, dup_pending, dup_scanning,
                   dup_total, scan_no, folder_gen, cancelled, writes>>

\* Some program rewrites a file of the folder on display.
AppFileRewritten ==
    /\ UNCHANGED <<dupVars, thumbVars, parVars, loadVars>>
    /\ writes < MaxWrites
    /\ \E p \in Range(image_paths) :
          /\ disk[p] # Some(Rewritten(p))
          /\ disk' = [disk EXCEPT ![p] = Some(Rewritten(p))]
    /\ writes' = writes + 1
    /\ UNCHANGED <<images, hashes_written, summary_written, cat_op>>
    /\ UNCHANGED <<catalog, folder, image_paths, dup_hashes, dup_pending, dup_scanning,
                   dup_total, dup_groups, dup_badge_set, dup_summaries, tasks, scan_no,
                   folder_gen, cancelled, last>>

\* Some program removes a file of the folder on display.
AppFileRemoved ==
    /\ UNCHANGED <<dupVars, thumbVars, parVars, loadVars>>
    /\ writes < MaxWrites
    /\ \E p \in Range(image_paths) :
          /\ disk[p] # None
          /\ disk' = [disk EXCEPT ![p] = None]
    /\ writes' = writes + 1
    /\ UNCHANGED <<images, hashes_written, summary_written, cat_op>>
    /\ UNCHANGED <<catalog, folder, image_paths, dup_hashes, dup_pending, dup_scanning,
                   dup_total, dup_groups, dup_badge_set, dup_summaries, tasks, scan_no,
                   folder_gen, cancelled, last>>

\* boot(): Catalog::open succeeded or failed; the folder of the last session
\* is X and scan_folder is under way.  The catalog file is new.
InitApp ==
    /\ DupIdle
    /\ ThumbIdle
    /\ ParIdle
    /\ LoadIdle
    /\ \E b \in {"imgB", "junk"} :
          disk = [p \in AppPaths |->
                     Some([size |-> 1, mtime |-> 1,
                           bytes |-> IF p = "x2.jpg" THEN b ELSE "imgA"])]
    /\ images = {}
    /\ hashes_written = [p \in AppPaths |-> None]
    /\ summary_written = [p \in AppPaths |-> None]
    /\ cat_op = [op |-> "open", path |-> "", identity |-> None, arg |-> None,
                 ret |-> None, before |-> None]
    /\ catalog \in BOOLEAN
    /\ folder = Some("X")
    /\ image_paths = <<>>
    /\ dup_hashes = <<>>
    /\ dup_pending = <<>>
    /\ dup_scanning = FALSE
    /\ dup_total = 0
    /\ dup_groups = <<>>
    /\ dup_badge_set = {}
    /\ dup_summaries = <<>>
    /\ tasks = {[kind |-> "scan", payload |-> "X", results |-> None, scan |-> 0, gen |-> 0]}
    /\ scan_no = 0
    /\ folder_gen = 0
    /\ cancelled = {}
    /\ writes = 0
    /\ last = Did("boot", None, <<>>, {}, {}, {})

NextApp ==
    \/ FolderSelected
    \/ ImagesFound
    \/ FindDuplicates
    \/ CancelDupScan
    \/ RunHashBatch
    \/ DupHashBatchReady
    \/ DupAnalysisReady
    \/ CachedDupAnalysisReady
    \/ AppFileRewritten
    \/ AppFileRemoved

SpecApp == InitApp /\ [][NextApp]_vars

\* The runtime: a Task's body runs, or its message is handled by update().
Runtime ==
    \/ ImagesFound
    \/ RunHashBatch
    \/ DupHashBatchReady
    \/ DupAnalysisReady
    \/ CachedDupAnalysisReady

\* The runtime does not stop while a Task is waiting; which buttons are
\* pressed, and when files change, is left open.
SpecAppFair == SpecApp /\ WF_vars(Runtime)

\* boot() with Catalog::open failing: state.catalog is None for the whole run.
InitNoCatalog == InitApp /\ ~catalog

\* Without a catalog ImagesFound has no cached fingerprints and dispatches no
\* cached analysis, so CachedDupAnalysisReady is never delivered.
NextNoCatalog ==
    \/ FolderSelected
    \/ ImagesFound
    \/ FindDuplicates
    \/ CancelDupScan
    \/ RunHashBatch
    \/ DupHashBatchReady
    \/ DupAnalysisReady
    \/ AppFileRewritten
    \/ AppFileRemoved

SpecNoCatalog == InitNoCatalog /\ [][NextNoCatalog]_vars /\ WF_vars(Runtime)

(***************************************************************************)
(* The thumbnail loading of the orchestrator (src/src/app.rs): the part of *)
(* update() that fills state.thumbnails.  FolderSelected and ImagesFound   *)
(* appear here with the loader's fields; the duplicate-scan fields they    *)
(* write are those of FolderSelected and ImagesFound above.  The Tasks are *)
(* never cancelled: each delivers its message whatever was selected since. *)
(***************************************************************************)

PreviewBatchSize == 1   \* the batch size, standing for PREVIEW_BATCH_SIZE
UpgradeBatchSize == 1   \* the batch size, standing for THUMBNAIL_BATCH_SIZE
MAX_UPGRADE_BATCHES_IN_FLIGHT == 3

\* The folders that can be opened; E holds no image file.
LoadFolders == {"P", "Q", "E"}

\* scan_folder: the image files under the folder, sorted.
FolderImages(f) ==
    IF f = "P" THEN <<"p1.jpg", "p2.jpg", "p3.jpg", "p4.jpg">>
    ELSE IF f = "Q" THEN <<"q1.jpg">>
    ELSE <<>>

\* extract_preview: p2.jpg carries no EXIF preview.
extract_preview(p) == IF p = "p2.jpg" THEN None ELSE Some("preview")

\* extract_previews_parallel: one (path, preview) per path, in input order.
extract_previews_parallel(batch) ==
    [k \in 1..Len(batch) |-> [path |-> batch[k], preview |-> extract_preview(batch[k])]]

\* generate_thumbnails_parallel as the loader sees it: one (path, rgba) per
\* path, in input order.
UpgradeResults(batch) == [k \in 1..Len(batch) |-> [path |-> batch[k], rgba |-> "thumbnail"]]

\* A Task handed to the runtime; no names the dispatch.
LoadTask(kind, payload, no) == [kind |-> kind, payload |-> payload, no |-> no]

\* load_next_preview_batch: what is left of pending_thumbnails and the Task
\* returned, the no-th that is dispatched.
load_next_preview_batch(pending, no) ==
    IF pending = <<>> THEN [pending |-> <<>>, tasks |-> {}]
    ELSE LET count == Min(PreviewBatchSize, Len(pending))
         IN  [pending |-> SubSeq(pending, count + 1, Len(pending)),
              tasks |-> {LoadTask("preview", SubSeq(pending, 1, count), no)}]

\* load_upgrade_batches: the while loop, from pending_upgrades, the counter
\* and the Tasks collected so far; no is the number of the next dispatch.
RECURSIVE load_upgrade_batches(_, _, _, _)
load_upgrade_batches(pending, in_flight, collected, no) ==
    IF in_flight < MAX_UPGRADE_BATCHES_IN_FLIGHT /\ pending # <<>>
    THEN LET count == Min(UpgradeBatchSize, Len(pending))
         IN  load_upgrade_batches(SubSeq(pending, count + 1, Len(pending)),
                                  in_flight + 1,
                                  collected \cup {LoadTask("upgrade", SubSeq(pending, 1, count), no)},
                                  no + 1)
    ELSE [pending |-> pending, in_flight |-> in_flight, tasks |-> collected]

\* The for loop of PreviewBatchReady from result k on: each result is indexed
\* at thumbnails.len() and pushed.
RECURSIVE PushPreviews(_, _, _, _)
PushPreviews(thumbs, index, results, k) ==
    IF k > Len(results) THEN [thumbnails |-> thumbs, thumbnail_index |-> index]
    ELSE LET r == results[k]
             handle == IF IsSome(r.preview) THEN Unwrap(r.preview) ELSE "placeholder"
         IN  PushPreviews(Append(thumbs, [path |-> r.path, handle |-> handle]),
                          MapInsert(index, r.path, Len(thumbs)),
                          results, k + 1)

\* The for loop of ThumbnailUpgradeReady from result k on: a result replaces
\* the entry its path is indexed at, if there is one.
RECURSIVE ApplyUpgrades(_, _, _, _)
ApplyUpgrades(thumbs, index, results, k) ==
    IF k > Len(results) THEN thumbs
    ELSE LET r == results[k]
             idx == MapGet(index, r.path)
         IN  ApplyUpgrades(IF IsSome(idx) /\ Unwrap(idx) < Len(thumbs)
                           THEN [thumbs EXCEPT ![Unwrap(idx) + 1] =
                                    [path |-> r.path, handle |-> r.rgba]]
                           ELSE thumbs,
                           index, results, k + 1)

\* The duplicate-scan fields and histories of the orchestrator, which the
\* loader's messages other than FolderSelected and ImagesFound leave alone.
scanVars == <<catalog, dup_hashes, dup_pending, dup_scanning, dup_total, dup_groups,
              dup_badge_set, dup_summaries, tasks, scan_no, cancelled, writes, last>>

\* Message::FolderSelected(Some(path)): the loader is emptied, loading is set
\* and scan_folder(path) is dispatched.
LoadFolderSelected ==
    /\ UNCHANGED <<catVars, dupVars, thumbVars, parVars, scanVars>>
    /\ folder_gen < MaxFolderChanges
    /\ \E f \in LoadFolders :
          /\ folder' = Some(f)
          /\ load_tasks' = load_tasks \cup {LoadTask("scan", f, dispatched_no)}
    /\ thumbnails' = <<>>
    /\ image_paths' = <<>>
    /\ pending_thumbnails' = <<>>
    /\ thumbnail_index' = <<>>
    /\ pending_upgrades' = <<>>
    /\ upgrade_batches_in_flight' = 0
    /\ loading' = TRUE
    /\ dispatched_no' = dispatched_no + 1
    /\ folder_gen' = folder_gen + 1

\* Message::ImagesFound(paths): the paths become image_paths and
\* pending_thumbnails, and the first preview batch is dispatched.
LoadImagesFound ==
    /\ UNCHANGED <<catVars, dupVars, thumbVars, parVars, scanVars>>
    /\ \E t \in load_tasks :
          /\ t.kind = "scan"
          /\ LET paths == FolderImages(t.payload)
                 next == load_next_preview_batch(paths, dispatched_no)
             IN  /\ image_paths' = paths
                 /\ pending_thumbnails' = next.pending
                 /\ load_tasks' = (load_tasks \ {t}) \cup next.tasks
                 /\ dispatched_no' = dispatched_no + Cardinality(next.tasks)
    /\ UNCHANGED <<folder, folder_gen, thumbnails, thumbnail_index, pending_upgrades,
                   upgrade_batches_in_flight, loading>>

\* Message::PreviewBatchReady(results): every result is pushed and queued for
\* its upgrade; the next preview batch and the upgrade batches are dispatched.
PreviewBatchReady ==
    /\ UNCHANGED <<catVars, dupVars, thumbVars, parVars, scanVars>>
    /\ \E t \in load_tasks :
          /\ t.kind = "preview"
          /\ LET results == extract_previews_parallel(t.payload)
                 pushed == PushPreviews(thumbnails, thumbnail_index, results, 1)
                 queued == pending_upgrades \o [k \in 1..Len(results) |-> results[k].path]
                 preview == load_next_preview_batch(pending_thumbnails, dispatched_no)
                 upgrade == load_upgrade_batches(queued, upgrade_batches_in_flight, {},
                                                 dispatched_no + Cardinality(preview.tasks))
             IN  /\ thumbnails' = pushed.thumbnails
                 /\ thumbnail_index' = pushed.thumbnail_index
                 /\ pending_thumbnails' = preview.pending
                 /\ pending_upgrades' = upgrade.pending
                 /\ upgrade_batches_in_flight' = upgrade.in_flight
                 /\ load_tasks' = (load_tasks \ {t}) \cup preview.tasks \cup upgrade.tasks
                 /\ dispatched_no' = dispatched_no + Cardinality(preview.tasks)
                                                   + Cardinality(upgrade.tasks)
    /\ UNCHANGED <<folder, folder_gen, image_paths, loading>>

\* Message::ThumbnailUpgradeReady(results): the counter is decremented, the
\* results replace their previews, loading ends when nothing is left, and
\* further upgrade batches are dispatched.
ThumbnailUpgradeReady ==
    /\ UNCHANGED <<catVars, dupVars, thumbVars, parVars, scanVars>>
    /\ \E t \in load_tasks :
          /\ t.kind = "upgrade"
          /\ LET results == UpgradeResults(t.payload)
                 in_flight == IF upgrade_batches_in_flight = 0 THEN 0
                              ELSE upgrade_batches_in_flight - 1
                 upgrade == load_upgrade_batches(pending_upgrades, in_flight, {}, dispatched_no)
             IN  /\ thumbnails' = ApplyUpgrades(thumbnails, thumbnail_index, results, 1)
                 /\ loading' = IF /\ pending_upgrades = <<>>
                                  /\ in_flight = 0
                                  /\ pending_thumbnails = <<>>
                               THEN FALSE ELSE loading
                 /\ pending_upgrades' = upgrade.pending
                 /\ upgrade_batches_in_flight' = upgrade.in_flight
                 /\ load_tasks' = (load_tasks \ {t}) \cup upgrade.tasks
                 /\ dispatched_no' = dispatched_no + Cardinality(upgrade.tasks)
    /\ UNCHANGED <<folder, folder_gen, image_paths, thumbnail_index, pending_thumbnails>>

\* boot(): without a last folder nothing is loading; with one, loading is set
\* and its scan_folder is under way.
InitLoad ==
    /\ CatalogIdle
    /\ DupIdle
    /\ ThumbIdle
    /\ ParIdle
    /\ catalog = FALSE
    /\ image_paths = <<>>
    /\ dup_hashes = <<>>
    /\ dup_pending = <<>>
    /\ dup_scanning = FALSE
    /\ dup_total = 0
    /\ dup_groups = <<>>
    /\ dup_badge_set = {}
    /\ dup_summaries = <<>>
    /\ tasks = {}
    /\ scan_no = 0
    /\ folder_gen = 0
    /\ cancelled = {}
    /\ writes = 0
    /\ last = Did("boot", None, <<>>, {}, {}, {})
    /\ thumbnails = <<>>
    /\ thumbnail_index = <<>>
    /\ pending_thumbnails = <<>>
    /\ pending_upgrades = <<>>
    /\ upgrade_batches_in_flight = 0
    /\ \E last_folder \in {None} \cup {Some(f) : f \in LoadFolders} :
          /\ folder = last_folder
          /\ loading = IsSome(last_folder)
          /\ load_tasks = IF IsSome(last_folder)
                          THEN {LoadTask("scan", Unwrap(last_folder), 0)} ELSE {}
          /\ dispatched_no = IF IsSome(last_folder) THEN 1 ELSE 0

\* The runtime delivering the message of a Task that has run.
LoadRuntime ==
    \/ LoadImagesFound
    \/ PreviewBatchReady
    \/ ThumbnailUpgradeReady

NextLoad ==
    \/ LoadFolderSelected
    \/ LoadImagesFound
    \/ PreviewBatchReady
    \/ ThumbnailUpgradeReady

SpecLoad == InitLoad /\ [][NextLoad]_vars

\* The runtime runs every Task it was handed and delivers its message.
SpecLoadFair == InitLoad /\ [][NextLoad]_vars /\ WF_vars(LoadRuntime)

(***************************************************************************)
(* Claims about the catalog (checked under SpecCatalog).                   *)
(***************************************************************************)

\* C1: a field group (the hashes; the dimensions/dates) is returned only if
\* that field group was last written with the (size, mtime) the file has now,
\* also when the other field group of the row was re-written since.
C1_FieldGroupWrittenUnderCurrentIdentity ==
    \A p \in Paths :
        /\ IsSome(get_hashes(p)) => hashes_written[p] = file_size_and_mtime(p)
        /\ IsSome(get_file_summary(p)) => summary_written[p] = file_size_and_mtime(p)

\* C2: get_hashes returns a fingerprint only when the file exists and a row of
\* the path stores exactly the file's size and mtime; a change of the file's
\* identity, or its deletion, turns a returned fingerprint into absent while
\* the row stays as it was; the read itself writes nothing.
C2_FreshRow(p) ==
    /\ IsSome(disk[p])
    /\ \E r \in images :
          /\ r.path = p
          /\ r.file_size = Unwrap(disk[p]).size
          /\ r.mtime_ns = Unwrap(disk[p]).mtime

C2_GetHashesOnlyFresh ==
    /\ [](\A p \in Paths : IsSome(get_hashes(p)) => C2_FreshRow(p))
    /\ [][\A p \in Paths :
            (IsSome(get_hashes(p)) /\ disk'[p] # disk[p])
                => (get_hashes(p)' = None /\ images' = images /\ RowsOf(images', p) # {})]_vars
    /\ [][cat_op'.op = "get_hashes" => images' = images]_vars

\* C2 witness: get_hashes has just answered absent for a path whose row still
\* holds hashes written under an identity the existing file no longer has.
C2_Witness ==
    /\ cat_op.op = "get_hashes"
    /\ cat_op.ret = None
    /\ IsSome(disk[cat_op.path])
    /\ \E r \in images :
          /\ r.path = cat_op.path
          /\ IsSome(r.content_hash)
          /\ hashes_written[r.path] = Some([size |-> r.file_size, mtime |-> r.mtime_ns])
          /\ hashes_written[r.path] # file_size_and_mtime(r.path)

\* C3: after insert_hashes(path, size, mtime, H) with the file's current
\* (size, mtime), and before any file change, get_hashes(path) is exactly H.
C3_InsertThenGetHashes ==
    (cat_op.op = "insert_hashes" /\ file_size_and_mtime(cat_op.path) = cat_op.identity)
        => get_hashes(cat_op.path) = cat_op.arg

\* C3 witness: insert_hashes with the current identity has overwritten a row
\* that held another fingerprint, and get_hashes answers the new one.
C3_Witness ==
    /\ cat_op.op = "insert_hashes"
    /\ file_size_and_mtime(cat_op.path) = cat_op.identity
    /\ IsSome(cat_op.before)
    /\ cat_op.before # cat_op.arg
    /\ get_hashes(cat_op.path) = cat_op.arg

\* C12: insert_hashes on a path that already has a row leaves the row's width,
\* height, date_taken and date_modified as they were; insert_file_summary on
\* such a path leaves its content_hash and perceptual_hash as they were.
C12_UpsertsKeepOtherColumns ==
    [][\A p \in Paths : \A old \in RowsOf(images, p) :
          /\ (cat_op'.op = "insert_hashes" /\ cat_op'.path = p)
                => /\ RowsOf(images', p) # {}
                   /\ \A new \in RowsOf(images', p) :
                         /\ new.width = old.width
                         /\ new.height = old.height
                         /\ new.date_taken = old.date_taken
                         /\ new.date_modified = old.date_modified
          /\ (cat_op'.op = "insert_file_summary" /\ cat_op'.path = p)
                => /\ RowsOf(images', p) # {}
                   /\ \A new \in RowsOf(images', p) :
                         /\ new.content_hash = old.content_hash
                         /\ new.perceptual_hash = old.perceptual_hash]_vars

\* C12 witness: insert_hashes has just replaced the fingerprint of a row that
\* was written by insert_file_summary before and still holds its dimensions.
C12_Witness ==
    /\ cat_op.op = "insert_hashes"
    /\ IsSome(cat_op.before)
    /\ cat_op.before # cat_op.arg
    /\ IsSome(summary_written[cat_op.path])
    /\ \E r \in RowsOf(images, cat_op.path) :
          /\ r.width = Some(4) /\ r.height = Some(3)
          /\ r.perceptual_hash = Some(Unwrap(cat_op.arg)[2])

\* C13: insert_hashes(path, identity_a, H) and insert_file_summary(path,
\* identity_b, S) commute: on every table the program can hold, the table after
\* both is the same whichever of the two commits first.
C13_WritersCommute ==
    \A p \in Paths : \A ida, idb \in Identities : \A h \in CatalogHashes : \A s \in Summaries :
        UpsertSummary(UpsertHashes(images, p, ida.size, ida.mtime, h[1], h[2]),
                      p, idb.size, idb.mtime, s)
            = UpsertHashes(UpsertSummary(images, p, idb.size, idb.mtime, s),
                           p, ida.size, ida.mtime, h[1], h[2])

\* C14: the table holds at most one row per path whatever was inserted, and
\* right after insert_hashes the row of the path carries the size, the mtime
\* and the two hashes of that call, whatever an earlier call had stored.
C14_OneRowPerPathLastWriteWins ==
    \A p \in Paths :
        /\ Cardinality(RowsOf(images, p)) <= 1
        /\ (cat_op.op = "insert_hashes" /\ cat_op.path = p)
              => /\ RowsOf(images, p) # {}
                 /\ \A r \in RowsOf(images, p) :
                       /\ r.file_size = Unwrap(cat_op.identity).size
                       /\ r.mtime_ns = Unwrap(cat_op.identity).mtime
                       /\ r.content_hash =
                              Some([len |-> ContentHashLen, digest |-> Unwrap(cat_op.arg)[1]])
                       /\ r.perceptual_hash = Some(Unwrap(cat_op.arg)[2])

\* C14 witness: a second insert_hashes, with another size and mtime and another
\* fingerprint than the row held, has left one row that carries the later values.
C14_Witness ==
    /\ cat_op.op = "insert_hashes"
    /\ IsSome(cat_op.before)
    /\ cat_op.before # cat_op.arg
    /\ IsSome(disk[cat_op.path])
    /\ Unwrap(cat_op.identity).size # Unwrap(disk[cat_op.path]).size
    /\ Unwrap(cat_op.identity).mtime # Unwrap(disk[cat_op.path]).mtime
    /\ Cardinality(RowsOf(images, cat_op.path)) = 1
    /\ hashes_written[cat_op.path] = cat_op.identity
    /\ \E r \in RowsOf(images, cat_op.path) :
          /\ r.file_size = Unwrap(cat_op.identity).size
          /\ r.mtime_ns = Unwrap(cat_op.identity).mtime
          /\ r.perceptual_hash = Some(Unwrap(cat_op.arg)[2])

\* C15: prune_missing deletes exactly the rows whose path does not exist on
\* disk and leaves every other row as it was; on a table of 5 rows of which 2
\* paths have been deleted from disk exactly 3 rows remain.
C15_PruneDeletesExactlyMissing ==
    /\ [][cat_op'.op = "prune_missing"
            => images' = {r \in images : disk[r.path] # None}]_vars
    /\ [][(/\ cat_op'.op = "prune_missing"
           /\ Cardinality(images) = 5
           /\ Cardinality({r \in images : disk[r.path] = None}) = 2)
            => Cardinality(images') = 3]_vars

\* C15 witness: prune_missing has just run on 5 stored paths of which 2 are
\* gone from disk, and 3 rows are left.
C15_Witness ==
    /\ cat_op.op = "prune_missing"
    /\ Cardinality(Unwrap(cat_op.arg)) = 5
    /\ Cardinality({p \in Unwrap(cat_op.arg) : disk[p] = None}) = 2
    /\ Cardinality(images) = 3
    /\ \A r \in images : disk[r.path] # None

\* C16: get_file_summary answers only from a row that stores the file's
\* current size and mtime (the rule of get_hashes), and answers absent when
\* that row has no dimensions, no date_taken and no date_modified.
C16_Populated(r) ==
    (IsSome(r.width) /\ IsSome(r.height)) \/ IsSome(r.date_taken) \/ IsSome(r.date_modified)

C16_SummaryOnlyFreshAndPopulated ==
    \A p \in Paths :
        /\ IsSome(get_file_summary(p))
              <=> (C2_FreshRow(p) /\ \E r \in RowsOf(images, p) : C16_Populated(r))
        /\ (cat_op.op = "get_file_summary" /\ cat_op.path = p)
              => cat_op.ret = get_file_summary(p)

\* C16 witness: get_file_summary has just answered absent for a row that only
\* insert_hashes ever wrote, that is fresh, and from which get_hashes answers.
C16_Witness ==
    /\ cat_op.op = "get_file_summary"
    /\ cat_op.ret = None
    /\ summary_written[cat_op.path] = None
    /\ C2_FreshRow(cat_op.path)
    /\ IsSome(get_hashes(cat_op.path))

(***************************************************************************)
(* Claims about find_duplicates (checked under SpecDup and SpecScan).      *)
(* The graph below is defined on the input alone, without the union-find.  *)
(***************************************************************************)

Pos == 1..Len(hashes)
GroupPos == 1..Len(groups)
Members(k) == Range(groups[k].indices)
IsExact(k) == groups[k].match_kind = <<"Exact">>
IsVisual(k) == groups[k].match_kind[1] = "Visual"
InExactGroup(i) == \E k \in GroupPos : IsExact(k) /\ i \in Members(k)

\* The entry at p is the only one carrying its index: it stands for one image.
OnlyEntryOf(p) == \A q \in Pos : hashes[q].idx = hashes[p].idx => q = p

Dist(p, q) == hamming_distance(hashes[p].perceptual_hash, hashes[q].perceptual_hash)
Vertices == {p \in Pos : ~InExactGroup(hashes[p].idx)}
Linked(p, q) == p # q /\ Dist(p, q) <= threshold

RECURSIVE Reach(_)
Reach(S) ==
    LET N == S \cup {q \in Vertices : \E p \in S : Linked(p, q)}
    IN  IF N = S THEN S ELSE Reach(N)

Component(p) == Reach({p})
Components == {Component(p) : p \in Vertices}
IdxOf(C) == {hashes[p].idx : p \in C}

SameGroup(p, q) ==
    \E k \in GroupPos : hashes[p].idx \in Members(k) /\ hashes[q].idx \in Members(k)
SameVisualGroup(p, q) ==
    \E k \in GroupPos :
        IsVisual(k) /\ hashes[p].idx \in Members(k) /\ hashes[q].idx \in Members(k)

\* Two images outside every Exact group, each carried by one entry.
ImagePairs ==
    {pq \in Vertices \X Vertices :
        pq[1] # pq[2] /\ OnlyEntryOf(pq[1]) /\ OnlyEntryOf(pq[2])}

\* C4: the returned groups are pairwise disjoint: no index is in two groups.
C4_GroupsPairwiseDisjoint ==
    pc = "done" =>
        \A k, l \in GroupPos : k # l => Members(k) \cap Members(l) = {}

\* C5 as stated: two images outside Exact groups at distance exactly T share a
\* Visual group, and two at distance T + 1 share no group.
C5_Original ==
    pc = "done" =>
        \A pq \in ImagePairs :
            /\ Dist(pq[1], pq[2]) = threshold => SameVisualGroup(pq[1], pq[2])
            /\ Dist(pq[1], pq[2]) = threshold + 1 => ~SameGroup(pq[1], pq[2])

\* C5 amended: two images outside Exact groups at distance exactly T share a
\* Visual group; two at distance T + 1 share a group only when a chain of
\* images outside Exact groups, consecutive ones within T, links them.
C5_ThresholdInclusive ==
    pc = "done" =>
        \A pq \in ImagePairs :
            /\ Dist(pq[1], pq[2]) = threshold => SameVisualGroup(pq[1], pq[2])
            /\ (Dist(pq[1], pq[2]) = threshold + 1 /\ pq[2] \notin Component(pq[1]))
                  => ~SameGroup(pq[1], pq[2])

\* C5 witness: with T >= 1, a pair at distance exactly T is in one Visual group
\* while a pair at distance T + 1 with no chain between them is in none together.
C5_Witness ==
    /\ pc = "done"
    /\ threshold >= 1
    /\ \E pq \in ImagePairs :
          Dist(pq[1], pq[2]) = threshold /\ SameVisualGroup(pq[1], pq[2])
    /\ \E pq \in ImagePairs :
          /\ Dist(pq[1], pq[2]) = threshold + 1
          /\ pq[2] \notin Component(pq[1])
          /\ ~SameGroup(pq[1], pq[2])

\* C6: one Exact group per content hash carried by at least two entries, holding
\* all and only the indices with that hash; none for a hash carried by one entry.
EntriesWith(ch) == {p \in Pos : hashes[p].content_hash = ch}
SharedDigests == {ch \in ShaKeys(hashes) : Cardinality(EntriesWith(ch)) >= 2}
ExactPos == {k \in GroupPos : IsExact(k)}

C6_ExactGroupPerSharedDigest ==
    pc = "done" =>
        \A S \in {IdxOf(EntriesWith(ch)) : ch \in SharedDigests}
                   \cup {Members(k) : k \in ExactPos} :
            Cardinality({k \in ExactPos : Members(k) = S})
                = Cardinality({ch \in SharedDigests : IdxOf(EntriesWith(ch)) = S})

\* C6 witness: a hash carried by two entries gave one Exact group of two
\* indices while another hash, carried by one entry, gave none.
C6_Witness ==
    /\ pc = "done"
    /\ \E ch \in ShaKeys(hashes) :
          /\ Cardinality(EntriesWith(ch)) = 2
          /\ \E k \in ExactPos : Members(k) = IdxOf(EntriesWith(ch)) /\ Cardinality(Members(k)) = 2
    /\ \E ch \in ShaKeys(hashes) :
          /\ Cardinality(EntriesWith(ch)) = 1
          /\ \A k \in ExactPos : ~(IdxOf(EntriesWith(ch)) \subseteq Members(k))

\* C7: the Visual groups are the connected components, of two or more entries,
\* of the graph on the entries whose index is in no Exact group, with an edge
\* where the perceptual distance is <= threshold; no Visual group holds an
\* index of an Exact group.
VisualPos == {k \in GroupPos : IsVisual(k)}
BigComponents == {C \in Components : Cardinality(C) >= 2}

SameBytes(a, b) == a # b /\ IsSome(files[a]) /\ files[a] = files[b]
InOneExactGroup(a, b) ==
    \E k \in ExactPos : (a - 1) \in Members(k) /\ (b - 1) \in Members(k)
HashOfFile(a) == {hashes[p].content_hash : p \in {q \in Pos : hashes[q].idx = a - 1}}

C8_Original ==
    pc = "done" =>
        \A a, b \in 1..Len(files) : SameBytes(a, b) => InOneExactGroup(a, b)

\* C8 amended: two files with identical bytes that decode as an image get equal
\* content hashes and end up in the same Exact group.
C8_IdenticalImagesExact ==
    pc = "done" =>
        \A a, b \in 1..Len(files) :
            (SameBytes(a, b) /\ IsSome(DecodeAndHash(Unwrap(files[a]))))
                => /\ HashOfFile(a) = HashOfFile(b)
                   /\ Cardinality(HashOfFile(a)) = 1
                   /\ InOneExactGroup(a, b)

\* C8 witness: two identical decodable files share an Exact group that leaves
\* out a different encoding of the same picture.
C8_Witness ==
    /\ pc = "done"
    /\ \E a, b, c \in 1..Len(files) :
          /\ SameBytes(a, b)
          /\ IsSome(DecodeAndHash(Unwrap(files[a])))
          /\ InOneExactGroup(a, b)
          /\ IsSome(files[c])
          /\ files[c] # files[a]
          /\ DecodeAndHash(Unwrap(files[c])) = DecodeAndHash(Unwrap(files[a]))
          /\ ~InOneExactGroup(a, c)

\* C9: whatever order the matching pairs are consumed in, the returned groups
\* are, up to their order, those of the run that takes the pairs in (i, j)
\* order: same kind, same distance, same members.
InOrderGroups ==
    LET ne == NonExact(hashes, ExactMatched(hashes))
        st == RunInOrder([x \in 0..(Len(ne) - 1) |-> x], <<>>, MatchingPairs(ne, threshold))
    IN  ExactGroups(hashes, CHOOSE o \in Orders(ExactKeys(hashes)) : TRUE)
        \o VisualGroups(st.parent, st.min_distance, ne,
                        CHOOSE o \in Orders(VisualRoots(st.parent, ne)) : TRUE)

GroupKey(g) == <<g.match_kind, Range(g.indices)>>
CountOf(gs, key) == Cardinality({k \in 1..Len(gs) : GroupKey(gs[k]) = key})
SameGroups(gs, hs) ==
    /\ Len(gs) = Len(hs)
    /\ \A k \in 1..Len(gs) : CountOf(gs, GroupKey(gs[k])) = CountOf(hs, GroupKey(gs[k]))

C9_DeliveryOrderIrrelevant ==
    pc = "done" => SameGroups(groups, InOrderGroups)

\* C9 witness: the loop took a pair out of (i, j) order while merging three or
\* more images whose pairs lie at different distances.
C9_Witness ==
    /\ pc = "done"
    /\ reordered
    /\ \E k \in VisualPos : Cardinality(Members(k)) >= 3
    /\ \E e, f \in MatchingPairs(non_exact, threshold) : e[3] # f[3]
    /\ SameGroups(groups, InOrderGroups)

\* C10: every returned group holds at least two distinct indices.
C10_GroupsHaveTwoDistinct ==
    pc = "done" => \A k \in GroupPos : Cardinality(Members(k)) >= 2

\* C11: a scan of three files with identical bytes and two further files whose
\* perceptual hashes are at Hamming distance 4, under threshold 10, returns
\* exactly two groups: an Exact group of the three identical files and a
\* Visual group of the other two with reported distance 4.
C11_Triple == {T \in SUBSET (1..Len(files)) :
                  /\ Cardinality(T) = 3
                  /\ \A a, b \in T : files[a] = files[b]
                  /\ \A a \in T, b \in (1..Len(files)) \ T : files[a] # files[b]}
C11_PhashOf(a) == Unwrap(DecodeAndHash(Unwrap(files[a])))
C11_Scenario(T, u, v) ==
    /\ Len(files) = 5
    /\ threshold = 10
    /\ T \in C11_Triple
    /\ (1..5) \ T = {u, v}
    /\ u # v
    /\ files[u] # files[v]
    /\ CountOnesXor(C11_PhashOf(u)[1], C11_PhashOf(v)[1]) = 4
C11_Outcome(T, u, v) ==
    /\ Len(groups) = 2
    /\ \E k \in GroupPos :
          /\ groups[k].match_kind = <<"Exact">>
          /\ Len(groups[k].indices) = 3
          /\ Members(k) = {a - 1 : a \in T}
    /\ \E k \in GroupPos :
          /\ groups[k].match_kind = <<"Visual", 4>>
          /\ Len(groups[k].indices) = 2
          /\ Members(k) = {u - 1, v - 1}

C11_ThreeExactTwoVisual ==
    pc = "done" =>
        \A T \in SUBSET (1..Len(files)) : \A u, v \in 1..Len(files) :
            C11_Scenario(T, u, v) => C11_Outcome(T, u, v)

\* C11 witness: the scan is over, the visually similar pair is listed before
\* the identical files, whose own perceptual hash is within the threshold of
\* the pair's, and the two groups are as claimed.
C11_Witness ==
    /\ pc = "done"
    /\ \E T \in SUBSET (1..Len(files)) : \E u, v \in 1..Len(files) :
          /\ C11_Scenario(T, u, v)
          /\ u = 1 /\ v = 3
          /\ \A a \in T : CountOnesXor(C11_PhashOf(a)[1], C11_PhashOf(u)[1]) <= 3
          /\ C11_Outcome(T, u, v)

(***************************************************************************)
(* Claims about generate_thumbnail (checked under SpecThumb).              *)
(* What each tier can do is read off the file and the cache files here,    *)
(* not off the operators of the model.                                     *)
(***************************************************************************)

CacheUsable(c) ==
    \E e \in c.made_for : (e.ext = "qoi" /\ e.bytes.magic = "qoif")
                             \/ (e.ext = "jpg" /\ e.bytes.magic = "jfif")
PreviewLarge(c) ==
    /\ IsSome(c.file)
    /\ IsSome(Unwrap(c.file).content.exif)
    /\ Unwrap(Unwrap(c.file).content.exif).min_dim >= c.max_size
ExifUsable(c) == PreviewLarge(c) /\ Unwrap(Unwrap(c.file).content.exif).decodes
Downscales(c) ==
    /\ IsSome(c.file)
    /\ IsSome(Unwrap(c.file).content.jpeg)
    /\ \E f \in {2, 4, 8} :
          f * c.max_size < Unwrap(Unwrap(c.file).content.jpeg).dim + f
ScaledUsable(c) == Downscales(c) /\ Unwrap(Unwrap(c.file).content.jpeg).decodes
FullUsable(c) == IsSome(c.file) /\ Unwrap(c.file).content.full
Solid(n) ==
    [pixels |-> [len |-> n * n * 4, solid |-> Some(60), image |-> None],
     width |-> n, height |-> n]

\* C17: every generate_thumbnail(path, N) call returns a bitmap (width x height
\* x 4 bytes); when no cache file can be used and the file cannot be read or
\* decoded by any tier, the bitmap is the solid placeholder of width N, height
\* N and N*N*4 bytes.
C17_AlwaysBitmapPlaceholderLast ==
    IsSome(call) =>
        LET c == Unwrap(call) IN
        /\ c.ret.width > 0 /\ c.ret.height > 0
        /\ c.ret.pixels.len = c.ret.width * c.ret.height * 4
        /\ (~CacheUsable(c) /\ ~ExifUsable(c) /\ ~ScaledUsable(c) /\ ~FullUsable(c))
              => c.ret = Solid(c.max_size)

\* C17 witness: a call on an existing JPEG whose preview is too small and whose
\* scan does not decode has returned the placeholder; so has a call on a
\* missing file before it.
C17_Witness ==
    /\ IsSome(call) /\ IsSome(prev_call)
    /\ Unwrap(prev_call).file = None
    /\ Unwrap(prev_call).ret = Solid(Unwrap(prev_call).max_size)
    /\ IsSome(Unwrap(call).file)
    /\ Unwrap(Unwrap(call).file).content.name = "cmyk"
    /\ Unwrap(call).src = "placeholder"
    /\ Unwrap(call).ret = Solid(Unwrap(call).max_size)

TierRank(t) ==
    CASE t = "cache" -> 1 [] t = "exif" -> 2 [] t = "scaled" -> 3 [] t = "full" -> 4
Winner(c) ==
    IF CacheUsable(c) THEN "cache"
    ELSE IF ExifUsable(c) THEN "exif"
    ELSE IF ScaledUsable(c) THEN "scaled"
    ELSE IF FullUsable(c) THEN "full"
    ELSE "placeholder"

\* C18: the tiers run in the order cache, EXIF preview, scaled JPEG decode,
\* full decode; the preview is decoded only when its smaller dimension is at
\* least max_size, the scaled decode counts only when the decoder downscaled;
\* the result is that of the first tier that succeeds, no tier runs after it,
\* and the placeholder is returned only when all four fail.
C18_TiersInOrderFirstSuccess ==
    IsSome(call) =>
        LET c == Unwrap(call)
            t == c.tried
        IN  /\ c.src = Winner(c)
            /\ \A i, j \in 1..Len(t) : i < j => TierRank(t[i]) < TierRank(t[j])
            /\ t[1] = "cache"
            /\ c.src # "placeholder" => t[Len(t)] = c.src
            /\ c.src = "placeholder" => t[Len(t)] = "full"
            /\ "exif" \in Range(t) <=> (~CacheUsable(c) /\ PreviewLarge(c))
            /\ c.src = "scaled" => Downscales(c)
            /\ c.src \in {"exif", "scaled", "full"}
                  => c.ret.pixels.image
                        = Some(<<c.src, Unwrap(c.file).content.name, c.max_size>>)

\* C18 witness: on a cache miss the preview was large enough but did not
\* decode, the JPEG decoder did not downscale, and the full decode supplied
\* the result.
C18_Witness ==
    /\ IsSome(call)
    /\ Unwrap(call).tried = <<"cache", "exif", "scaled", "full">>
    /\ Unwrap(call).src = "full"
    /\ PreviewLarge(Unwrap(call))
    /\ ~Downscales(Unwrap(call))

Repeat ==
    /\ IsSome(call) /\ IsSome(prev_call)
    /\ ~Unwrap(call).touched
    /\ Unwrap(call).max_size = Unwrap(prev_call).max_size

C20_CacheOnlyUnderCurrentKey ==
    IsSome(call) =>
        LET c == Unwrap(call) IN
        /\ IsSome(c.hit) => Some(Unwrap(c.hit).written_for) = c.meta
        /\ (IsSome(prev_call) /\ Unwrap(prev_call).meta # c.meta /\ IsSome(c.hit))
              => Some(Unwrap(c.hit).written_for) # Unwrap(prev_call).meta

\* C20 witness: the call before wrote a cache file for another N or another
\* size or mtime; this call was served from an older file made for exactly
\* its own size, mtime and N, and the other file is still in the cache.
C20_Witness ==
    /\ IsSome(call) /\ IsSome(prev_call)
    /\ Unwrap(prev_call).wrote
    /\ Unwrap(prev_call).meta # Unwrap(call).meta
    /\ IsSome(Unwrap(call).hit)
    /\ Some(Unwrap(Unwrap(call).hit).written_for) = Unwrap(call).meta
    /\ \E e \in thumb_cache : Some(e.written_for) = Unwrap(prev_call).meta


(***************************************************************************)
(* C30: the distance a Visual group reports.                               *)
(***************************************************************************)

\* The roots whose cluster is group k, and the distances of the pairs of that
\* cluster that joined two separate clusters when the loop took them.
C30_RootsOf(k) ==
    {r \in VisualRoots(parent, non_exact) : cluster(parent, non_exact, r) = groups[k].indices}
C30_MergeDistances(k) ==
    {e[3] : e \in {f \in Range(merged) : find(parent, f[1]).root \in C30_RootsOf(k)}}

\* The distances of the pairs of a component that lie within the threshold.
C30_CandidateDistances(C) == {Dist(e[1], e[2]) : e \in {f \in C \X C : Linked(f[1], f[2])}}

C24_PhashLengths == {Len(ph) : ph \in PerceptualHashes}

\* The row's content hash or perceptual hash is NULL or of the wrong length.
C24_Malformed(r) ==
    \/ ~IsSome(r.content_hash)
    \/ ~IsSome(r.perceptual_hash)
    \/ Unwrap(r.content_hash).len # ContentHashLen
    \/ Len(Unwrap(r.perceptual_hash)) \notin C24_PhashLengths

\* C24: get_hashes answers None (a cache miss) for a path whose stored record
\* has a content hash or a perceptual hash that is missing or of malformed
\* length.
C24_MalformedIsMiss ==
    cat_op.op = "get_hashes" =>
        \A r \in RowsOf(images, cat_op.path) : C24_Malformed(r) => cat_op.ret = None


(***************************************************************************)
(* C21: the two parallel batch functions.                                  *)
(***************************************************************************)

C21_Hashes == Unwrap(par_ret["compute_hashes_batch"])
C21_Thumbs == Unwrap(par_ret["generate_thumbnails_parallel"])
C21_Items == 1..Len(par_items)

\* C21: compute_hashes_batch returns one (index, optional fingerprint) entry
\* per input pair: as many entries as pairs, every input index in exactly one
\* entry, with what compute_hashes gives for the path of that index.
\* generate_thumbnails_parallel returns one result per input path, each path in
\* exactly one result.  This holds whatever order the closures finish in and
\* whichever of them fail.
C21_OneResultPerInput ==
    /\ IsSome(par_ret["compute_hashes_batch"]) =>
          /\ Len(C21_Hashes) = Len(par_items)
          /\ \A i \in C21_Items :
                \E k \in 1..Len(C21_Hashes) :
                    /\ C21_Hashes[k] = <<par_items[i].idx,
                                         compute_hashes(BytesOf(par_files[par_items[i].path]))>>
                    /\ \A j \in 1..Len(C21_Hashes) :
                          C21_Hashes[j][1] = par_items[i].idx => j = k
    /\ IsSome(par_ret["generate_thumbnails_parallel"]) =>
          /\ Len(C21_Thumbs) = Len(par_items)
          /\ \A i \in C21_Items :
                \E k \in 1..Len(C21_Thumbs) :
                    /\ C21_Thumbs[k].path = par_items[i].path
                    /\ C21_Thumbs[k].width = par_max_size
                    /\ C21_Thumbs[k].height = par_max_size
                    /\ \A j \in 1..Len(C21_Thumbs) :
                          C21_Thumbs[j].path = par_items[i].path => j = k

\* C21 witness: both functions have returned for a batch of three or more
\* files; in both the closures finished out of input order; one file gave no
\* fingerprint and the placeholder, another a fingerprint and a thumbnail.
C21_Witness ==
    /\ IsSome(par_ret["compute_hashes_batch"])
    /\ IsSome(par_ret["generate_thumbnails_parallel"])
    /\ Len(par_items) >= 3
    /\ par_unordered["compute_hashes_batch"]
    /\ par_unordered["generate_thumbnails_parallel"]
    /\ \E k \in 1..Len(C21_Hashes) : C21_Hashes[k][2] = None
    /\ \E k \in 1..Len(C21_Hashes) : C21_Hashes[k][2] # None
    /\ \E k \in 1..Len(C21_Thumbs) : C21_Thumbs[k].rgba.solid # None
    /\ \E k \in 1..Len(C21_Thumbs) : C21_Thumbs[k].rgba.solid = None
    /\ Len(C21_Hashes) = Len(par_items)
    /\ Len(C21_Thumbs) = Len(par_items)


(***************************************************************************)
(* Claims about the orchestrator's duplicate scan (SpecApp, SpecAppFair).  *)
(***************************************************************************)

\* The hash batch, analysis or cached analysis whose message this step handles.
Delivered(t, kinds) ==
    /\ t \in tasks
    /\ t \notin tasks'
    /\ t.kind \in kinds
    /\ t.kind = "hash" => t.results # None

\* The number of dup_hashes entries that carry index i.
EntriesOf(hs, i) == Cardinality({k \in 1..Len(hs) : hs[k].idx = i})

\* C25: a DupHashBatchReady whose batch was dispatched by a scan that
\* CancelDupScan has stopped is discarded: dup_hashes and the catalog are left
\* as they are and no Task is dispatched, also when FindDuplicates has started
\* a new scan in the meantime.
C25_CancelledBatchDiscarded ==
    [][\A t \in tasks :
          (Delivered(t, {"hash"}) /\ t.scan \in cancelled) =>
              /\ dup_hashes' = dup_hashes
              /\ images' = images
              /\ tasks' = tasks \ {t}]_vars

\* C26: every fingerprint the orchestrator writes to the catalog is stored
\* under the path of the file it was computed from, with the size and mtime
\* that file had when its bytes were hashed.
C26_FingerprintStoredForItsFile ==
    \A w \in last.wrote :
        /\ w.path = w.from
        /\ Some(w.identity) = w.seen

\* C28: when DupHashBatchReady dispatches the clustering Task, no hash batch of
\* the running scan is in flight: every (index, path) FindDuplicates queued
\* has come back.
C28_ClusteringAfterAllBatches ==
    (last.msg = "DupHashBatchReady" /\ \E a \in last.dispatched : a.kind = "analysis") =>
        \A t \in tasks : ~(t.kind = "hash" /\ t.scan = scan_no)

\* The Task was made for a scan that has been cancelled since, or for a
\* folder that FolderSelected has replaced since.
StaleAnalysis(t) ==
    \/ t.gen # folder_gen
    \/ t.kind = "analysis" /\ t.scan \in cancelled

\* C29: a DupAnalysisReady or CachedDupAnalysisReady whose result belongs to a
\* cancelled scan or to a replaced folder leaves dup_groups, dup_badge_set and
\* dup_summaries as they are and writes no summary to the catalog.
C29_StaleAnalysisIgnored ==
    [][\A t \in tasks :
          (Delivered(t, {"analysis", "cached_analysis"}) /\ StaleAnalysis(t)) =>
              /\ UNCHANGED <<dup_groups, dup_badge_set, dup_summaries>>
              /\ images' = images]_vars

\* C27: a scan that FindDuplicates has started comes to its end: dup_scanning
\* is false again, by DupAnalysisReady unless the scan is cancelled or the
\* folder replaced.
C27_ScanFinishes == dup_scanning ~> ~dup_scanning

\* The path image_paths holds at index i, as a set.
PathsAt(i) == {image_paths[k] : k \in {j \in 1..Len(image_paths) : j = i + 1}}

IndicesOf(items) == {items[k].idx : k \in 1..Len(items)}

\* C23: with no catalog the database stays empty (every write is dropped),
\* FindDuplicates finds no cached fingerprint and queues every image for
\* hashing, a scan hands the clustering Task one fingerprint for each image
\* that decodes (no scan having been cancelled and neither the folder nor a
\* file changed), DupAnalysisReady ends the scan with the groups of those
\* fingerprints, and every scan comes to an end.
C23_NoLookupHits ==
    /\ images = {}
    /\ \A p \in AppPaths : hashes_written[p] = None /\ summary_written[p] = None
    /\ last.msg = "FindDuplicates" =>
          /\ dup_hashes = <<>>
          /\ IndicesOf(dup_pending) \cup UNION {IndicesOf(a.payload) : a \in last.dispatched}
                = 0..(Len(image_paths) - 1)
          /\ last.dispatched # {}
C23_AllFingerprinted ==
    (/\ last.msg = "DupHashBatchReady"
     /\ cancelled = {}
     /\ folder_gen = 0
     /\ writes = 0) =>
        \A a \in last.dispatched :
            a.kind = "analysis" =>
                /\ IndicesOf(a.payload.hashes)
                      = {i \in 0..(Len(image_paths) - 1) :
                            IsSome(compute_hashes(read(image_paths[i + 1])))}
                /\ \A i \in IndicesOf(a.payload.hashes) : EntriesOf(a.payload.hashes, i) = 1
C23_EndsWithGroups ==
    last.msg = "DupAnalysisReady" =>
        /\ ~dup_scanning
        /\ dup_groups = find_duplicates(Unwrap(last.task).payload.hashes, VISUAL_DUP_THRESHOLD)
        /\ last.summarised = {}
C23_NoCatalogDegrades ==
    /\ [](~catalog => (C23_NoLookupHits /\ C23_AllFingerprinted /\ C23_EndsWithGroups))
    /\ (~catalog /\ dup_scanning) ~> ~dup_scanning

\* C23 witness: without a catalog a scan of two images has ended with a
\* Visual group of both, and the database is still empty.
C23_Witness ==
    /\ ~catalog
    /\ last.msg = "DupAnalysisReady"
    /\ ~dup_scanning
    /\ scan_no = 1
    /\ Len(Unwrap(last.task).payload.hashes) = 2
    /\ Len(dup_groups) = 1
    /\ dup_badge_set = {0, 1}
    /\ images = {}


(***************************************************************************)
(* Claims about the reported distance and its tracker (SpecDup).           *)
(***************************************************************************)

\* The distances of all the pairs of entries of a component.
C31_PairDistances(C) == {Dist(e[1], e[2]) : e \in {f \in C \X C : f[1] # f[2]}}

\* C31: the distance reported for a Visual group is the smallest perceptual
\* Hamming distance over all the pairs of its members, and is at most the
\* threshold.
C31_DistanceIsMinOverAllPairs ==
    pc = "done" =>
        \A k \in VisualPos :
            /\ groups[k].match_kind[2] <= threshold
            /\ \E C \in BigComponents :
                  /\ IdxOf(C) = Members(k)
                  /\ groups[k].match_kind[2] = SetMin(C31_PairDistances(C))

\* C31 witness: a group of three members, two of them further apart than the
\* threshold, the pairs taken out of (i, j) order, reports the smallest of
\* the three distances.
C31_Witness ==
    /\ pc = "done"
    /\ reordered
    /\ \E k \in VisualPos : \E C \in BigComponents :
          /\ IdxOf(C) = Members(k)
          /\ Cardinality(C) = 3
          /\ Cardinality(Members(k)) = 3
          /\ \E p, q \in C : Dist(p, q) > threshold
          /\ groups[k].match_kind[2] = SetMin(C31_PairDistances(C))
          /\ groups[k].match_kind[2] <= threshold

\* The tracked minimum of the cluster of position x: the entry of
\* min_distance under the cluster's root, if any.
TrackerOf(par, md, x) == MapGet(md, find(par, x).root)

\* The pair the loop consumes in this step.
Consumed(e) == e \in matching_pairs /\ e \notin matching_pairs'

\* C32: when the loop takes a pair (i, j, d) whose ends lie in two clusters,
\* both ends are in one cluster afterwards and its tracker is the least of d
\* and the trackers the two clusters had; and whatever pair is taken, no
\* cluster's tracker is lost or grows.
C32_TrackerMinOnMerge ==
    [][\A e \in matching_pairs :
          Consumed(e) =>
              /\ find(parent, e[1]).root # find(parent, e[2]).root =>
                    /\ find(parent', e[1]).root = find(parent', e[2]).root
                    /\ TrackerOf(parent', min_distance', e[1])
                          = Some(SetMin({e[3]}
                                        \cup Present(TrackerOf(parent, min_distance, e[1]))
                                        \cup Present(TrackerOf(parent, min_distance, e[2]))))
              /\ \A x \in DOMAIN parent :
                    IsSome(TrackerOf(parent, min_distance, x)) =>
                        /\ IsSome(TrackerOf(parent', min_distance', x))
                        /\ Unwrap(TrackerOf(parent', min_distance', x))
                              <= Unwrap(TrackerOf(parent, min_distance, x))]_vars

\* C32 witness: two clusters of two entries each, with different trackers,
\* were joined by a third pair further apart than the smaller tracker, and
\* the tracker of the joined cluster is the smaller of the two.
C32_Witness ==
    /\ pc = "union"
    /\ Len(merged) = 3
    /\ {merged[1][1], merged[1][2]} \cap {merged[2][1], merged[2][2]} = {}
    /\ merged[1][3] # merged[2][3]
    /\ merged[3][3] > SetMin({merged[1][3], merged[2][3]})
    /\ \A x \in DOMAIN parent :
          TrackerOf(parent, min_distance, x) = Some(SetMin({merged[1][3], merged[2][3]}))


(***************************************************************************)
(* C33: what generate_thumbnail writes back to the disk cache (SpecThumb). *)
(***************************************************************************)

\* C33: a generate_thumbnail call that returns the placeholder, every decode
\* tier having failed, writes nothing to the thumbnail cache; a call writes
\* only the result of a tier that decoded the file.
C33_PlaceholderNotCached ==
    IsSome(call) =>
        /\ Unwrap(call).src = "placeholder" =>
              /\ ~Unwrap(call).wrote
              /\ \A e \in thumb_cache :
                    Some(e.written_for) = Unwrap(call).meta => e \in Unwrap(call).made_for
        /\ Unwrap(call).wrote => Unwrap(call).src \in {"exif", "scaled", "full"}


(***************************************************************************)
(* Further claims about the duplicate scan of the orchestrator (SpecApp).  *)
(***************************************************************************)

\* C34: a CachedDupAnalysisReady whose auto-analysis was launched before the
\* latest FindDuplicates leaves dup_groups, dup_badge_set and dup_summaries
\* as they are.
C34_CachedNeverReplacesFullScan ==
    [][\A t \in tasks :
          (Delivered(t, {"cached_analysis"}) /\ t.scan # scan_no) =>
              UNCHANGED <<dup_groups, dup_badge_set, dup_summaries>>]_vars

\* C35: dup_hashes holds every image index at most once, and so does the
\* list of hashes handed to find_duplicates by a clustering Task.
C35_IndexAtMostOnce ==
    /\ \A k, l \in 1..Len(dup_hashes) : dup_hashes[k].idx = dup_hashes[l].idx => k = l
    /\ \A t \in tasks :
          t.kind \in {"analysis", "cached_analysis"} =>
              \A k, l \in 1..Len(t.payload.hashes) :
                  t.payload.hashes[k].idx = t.payload.hashes[l].idx => k = l

\* C39: dup_badge_set is the union of the indices of the groups in
\* dup_groups.
C39_BadgeSetIsUnionOfGroups ==
    \A i \in dup_badge_set \cup UNION {Range(dup_groups[k].indices) : k \in 1..Len(dup_groups)} :
        i \in dup_badge_set <=>
            \E k \in 1..Len(dup_groups) :
                \E m \in 1..Len(dup_groups[k].indices) : dup_groups[k].indices[m] = i

\* C39 witness: an analysis has delivered a group of two images and both
\* carry the badge.
C39_Witness ==
    /\ last.msg \in {"DupAnalysisReady", "CachedDupAnalysisReady"}
    /\ Len(dup_groups) = 1
    /\ Len(dup_groups[1].indices) = 2
    /\ dup_badge_set = {0, 1}

(***************************************************************************)
(* Claims about the thumbnail loading (checked under SpecLoad and          *)
(* SpecLoadFair).                                                          *)
(***************************************************************************)

\* The upgrade batches that were dispatched and whose ThumbnailUpgradeReady
\* has not been handled yet.
OutstandingUpgrades == {t \in load_tasks : t.kind = "upgrade"}

\* C36: for every i < thumbnails.len(), thumbnails[i] is the thumbnail of
\* image_paths[i] (its path equals image_paths[i]) and thumbnail_index maps
\* that path to i.
C36_ThumbnailsParallelToPaths ==
    \A k \in 1..Len(thumbnails) :
        /\ k <= Len(image_paths)
        /\ thumbnails[k].path = image_paths[k]
        /\ MapGet(thumbnail_index, thumbnails[k].path) = Some(k - 1)

\* C37: upgrade_batches_in_flight equals the number of dispatched upgrade
\* batches whose ThumbnailUpgradeReady has not been handled yet, and that
\* number never exceeds MAX_UPGRADE_BATCHES_IN_FLIGHT.
C37_InFlightCountsOutstanding ==
    /\ upgrade_batches_in_flight = Cardinality(OutstandingUpgrades)
    /\ Cardinality(OutstandingUpgrades) <= MAX_UPGRADE_BATCHES_IN_FLIGHT

\* C38: once the ImagesFound of the folder's scan has been handled (no
\* scan_folder is under way any more), loading eventually becomes false,
\* whatever the folder holds.
C38_LoadingEnds ==
    (loading /\ ~(\E t \in load_tasks : t.kind = "scan")) ~> ~loading

=============================================================================
